---- MODULE Spec2Model ----
(***************************************************************************)
(* FormularyController (src/src/controllers/FormularyController.ts): a     *)
(* record store of drugs keyed by NDC with derived index sets (tier,       *)
(* pa-required, step-therapy, class, search tokens), plus the step-therapy *)
(* rule, PA-criteria and PA-request workflows, over a Redis key space.     *)
(*                                                                         *)
(* Strings whose characters the code inspects (names, class labels,        *)
(* queries) are sequences of one-character strings; identifiers that are   *)
(* only compared or used as key suffixes are TLA+ strings.                 *)
(*                                                                         *)
(* Also LockController (src/unnamed/part_003) and, from                    *)
(* src/src/controllers/SessionController.ts, CounterController's           *)
(* incrementIfBelow and SessionController's create / get /                 *)
(* destroyAllForUser.                                                      *)
(***************************************************************************)
EXTENDS Integers, Sequences, FiniteSets, TLC

VARIABLES
  drugs,       \* key `${prefix}:drug:${ndc}`       : ndc -> stored Drug (DOMAIN = keys that exist)
  tierIdx,     \* key `${prefix}:tier:${tier}`      : tier -> set of ndc
  paIdx,       \* key `${prefix}:pa-required`       : set of ndc
  stIdx,       \* key `${prefix}:step-therapy`      : set of ndc
  classIdx,    \* key `${prefix}:class:${label}`    : lower-cased label -> set of ndc
  searchIdx,   \* key `${prefix}:search:${term}`    : term -> set of ndc
  stepRule,    \* key `${prefix}:step-rule:${ndc}`  : ndc -> StepTherapyRule (DOMAIN = keys that exist)
  paCriteria,  \* key `${prefix}:pa-criteria:${ndc}`: ndc -> PriorAuthCriteria
  paRequest,   \* key `${prefix}:pa-request:${id}`  : request id -> [data, expiresAt]
  patientIdx,  \* key `${prefix}:pa-requests:patient:${p}` : patient -> set of request ids
  now,         \* the clock (Date.now() and the store's expiry clock), in days
  steps,       \* number of calls completed so far
  upserts,     \* number of addDrug / updateDrug calls completed so far
  lastOp,      \* the call that completed last: its name, arguments (upd, drug, arg) and return value
  upsertWords, \* history: ndc -> the words of the names the id was upserted with so far
  submitLog,   \* history: request id -> the time of its latest submitPARequest
  submitters,  \* history: request id -> the patients it was submitted for so far
  calls,       \* caller -> its call in progress, where calls run one store command at a time
  lockStore,   \* key `locks:${key}` : [token, expiresAt], of one key
  lockCalls,   \* lock caller -> its acquire or release call, one store command at a time
  clock,       \* the expiry clock of the lock and session stores, in seconds
  counterStore,  \* key `counter:${key}` : the value of one counter (0 when the key does not exist)
  counterCalls,  \* counter caller -> its incrementIfBelow call, one store command at a time
  counterLog,    \* history: the max arguments incrementIfBelow was called with so far
  sessionStore,  \* key `session:${sessionId}` : session id -> [data, expiresAt]
  userSessions,  \* key `session:user_sessions:${userId}` : user -> [members, expiresAt]
  created        \* history: session id -> the user and the expiry time it was created with

catalogVars  == <<drugs, tierIdx, paIdx, stIdx, classIdx, searchIdx>>
workflowVars == <<stepRule, paCriteria, paRequest, patientIdx>>
storeVars    == <<catalogVars, workflowVars>>
historyVars  == <<upsertWords, submitLog, submitters>>
lockVars     == <<lockStore, lockCalls, clock>>
counterVars  == <<counterStore, counterCalls, counterLog>>
sessionVars  == <<sessionStore, userSessions, created>>
serviceVars  == <<counterVars, sessionVars>>
processVars  == <<calls, lockVars, serviceVars>>
vars         == <<storeVars, now, steps, upserts, lastOp, historyVars, processVars>>

----------------------------------------------------------------------------
(* Bounds of the model *)

MaxSteps   == 3   \* calls per run
MaxUpserts == 2   \* addDrug / updateDrug calls per run
MaxTier    == 2   \* tiers drawn for the inputs are 1..MaxTier
MaxCalls   == 3   \* calls started per run, where calls run one store command at a time
MaxBulk    == 3   \* records of one bulkImportDrugs call
MaxClock   == 2   \* seconds that pass per run of the lock calls
MaxAcquire == 2   \* acquire calls per lock caller
MaxIncr    == 2   \* incrementIfBelow calls per counter caller
MaxSession == 3   \* sessions created per run

----------------------------------------------------------------------------
(* Strings *)

UpperChars == <<"A", "B", "C", "D", "E", "S", "T", "W", "X", "Y", "Z">>
LowerChars == <<"a", "b", "c", "d", "e", "s", "t", "w", "x", "y", "z">>

\* String.prototype.toLowerCase, one character
ToLowerChar(c) ==
  IF \E i \in 1..Len(UpperChars) : UpperChars[i] = c
  THEN LowerChars[CHOOSE i \in 1..Len(UpperChars) : UpperChars[i] = c]
  ELSE c

\* String.prototype.toLowerCase
toLowerCase(s) == [i \in 1..Len(s) |-> ToLowerChar(s[i])]

\* the characters the regular expression \s matches
IsWhitespace(c) == c \in {" ", "\t"}

\* String.prototype.split(/\s+/): the pieces between maximal runs of
\* whitespace; a leading or trailing run yields an empty first or last piece,
\* and the empty string yields one empty piece.
RECURSIVE SplitRec(_, _, _)
SplitRec(s, cur, prevWs) ==
  IF s = <<>> THEN <<cur>>
  ELSE IF IsWhitespace(Head(s))
       THEN IF prevWs THEN SplitRec(Tail(s), cur, TRUE)
                      ELSE <<cur>> \o SplitRec(Tail(s), <<>>, TRUE)
       ELSE SplitRec(Tail(s), Append(cur, Head(s)), FALSE)

split(s) == SplitRec(s, <<>>, FALSE)

Range(q) == {q[i] : i \in 1..Len(q)}

Min(a, b) == IF a <= b THEN a ELSE b

\* variant of MinTermLen: the test is `term.length > 1`, terms of two
\* characters qualify
MinTermLen_two == 1 + 1

\* minimum length of an indexed or queried term (term.length >= 3)
MinTermLen == 3

\* variant of IndexTerms: every part of a word, of length 3 or more, is
\* indexed along with the word
IndexTerms_substrings(drug) ==
  LET searchTerms == split(toLowerCase(drug.name)) \o split(toLowerCase(drug.genericName))
  IN  UNION {{SubSeq(w, a, b) : a \in 1..Len(w), b \in 1..Len(w)} : w \in Range(searchTerms)}
        \cap {t \in UNION {{SubSeq(w, a, b) : a \in 1..Len(w), b \in 1..Len(w)} :
                              w \in Range(searchTerms)} : Len(t) >= MinTermLen}

\* addDrug's searchTerms that pass `term.length >= 3`
IndexTerms(drug) ==
  LET searchTerms == split(toLowerCase(drug.name)) \o split(toLowerCase(drug.genericName))
  IN  {searchTerms[i] : i \in {j \in 1..Len(searchTerms) : Len(searchTerms[j]) >= MinTermLen}}

\* the lower-cased whitespace-delimited words, of length 3 or more, of a
\* record's name and genericName
WholeWords(drug) ==
  {w \in Range(split(toLowerCase(drug.name))) \cup Range(split(toLowerCase(drug.genericName))) :
     Len(w) >= 3}

\* variant of QueryTerms: the query is split without being lower-cased
QueryTerms_noLower(query) ==
  SelectSeq(split(query), LAMBDA t : Len(t) >= MinTermLen)

\* searchDrugs' terms: query.toLowerCase().split(/\s+/).filter(t => t.length >= 3)
QueryTerms(query) ==
  SelectSeq(split(toLowerCase(query)), LAMBDA t : Len(t) >= MinTermLen)

----------------------------------------------------------------------------
(* Inputs *)

NDCs == {"A", "B"}
Tiers == 1..MaxTier

Names ==
  { <<"A","b","c"," "," ","X","y","z">>,   \* "Abc  Xyz": two terms
    <<"w","x","y","z">>,                   \* "wxyz": one term, of which "xyz" is a part
    <<"a","b">> }                          \* "ab": no term of length >= 3

GenericNames ==
  { <<"A","b","c">>,                       \* "Abc"
    <<"d","e">> }                          \* "de"

NoClass == <<>>                            \* therapeuticClass undefined (or ""): falsy
ClassLabels ==
  { <<"S","t">>,                           \* "St"
    <<"b","x">> }                          \* "bx"

\* every Drug over the values above
Drugs ==
  [ndc : NDCs, name : Names, genericName : GenericNames, tier : Tiers,
   requiresPA : BOOLEAN, stepTherapy : BOOLEAN,
   therapeuticClass : ClassLabels \cup {NoClass}]

\* the records addDrug is called with; updateDrug reaches the other values
DrugPool ==
  [ndc : NDCs,
   name : {<<"A","b","c"," "," ","X","y","z">>, <<"a","b">>},
   genericName : {<<"A","b","c">>},
   tier : Tiers, requiresPA : BOOLEAN, stepTherapy : {FALSE},
   therapeuticClass : {<<"S","t">>}]

\* Partial<Drug>: the updates drawn set one field (possibly to the value it has)
Updates ==
  {[ndc |-> n] : n \in NDCs}
  \cup {[name |-> n] : n \in Names}
  \cup {[genericName |-> n] : n \in GenericNames}
  \cup {[tier |-> t] : t \in Tiers}
  \cup {[requiresPA |-> b] : b \in BOOLEAN}
  \cup {[stepTherapy |-> b] : b \in BOOLEAN}
  \cup {[therapeuticClass |-> c] : c \in ClassLabels \cup {NoClass}}

\* the records and updates drawn when the catalog calls run among the
\* workflow calls
CorePool ==
  [ndc : NDCs,
   name : {<<"A","b","c"," "," ","X","y","z">>},
   genericName : {<<"A","b","c">>},
   tier : Tiers, requiresPA : {TRUE}, stepTherapy : {FALSE},
   therapeuticClass : {<<"S","t">>}]

CoreUpdates ==
  {[tier |-> t] : t \in Tiers}
  \cup {[name |-> <<"a","b">>], [requiresPA |-> FALSE]}

AllTerms == UNION {IndexTerms(d) : d \in Drugs}
ClassKeys == {toLowerCase(c) : c \in ClassLabels}

NoArg == [f \in {} |-> f]

RequestIds == {"r1", "r2"}
Patients == {"p1", "p2"}
Prescribers == {"dr1"}

\* StepTherapyRule values: drugNDC and the ordered requiredDrugs
Rules ==
  [drugNDC : NDCs, requiredDrugs : {<<"A">>, <<"B", "A">>}]

\* PriorAuthCriteria values
Criteria ==
  [drugNDC : NDCs, criteria : {<<"c1">>}, expeditedAvailable : BOOLEAN]

\* variant of PARequestTtlDays: the TTL is 60 days
PARequestTtlDays_sixty == 30 + 30

\* the 30 day TTL of a stored request: EX 30 * 24 * 60 * 60, in days
PARequestTtlDays == 30

\* days the clock can advance in one step
TickDays == {1, PARequestTtlDays - 1}

----------------------------------------------------------------------------
(* The key-value store's operations on one key *)

\* SET key value: the key holds value afterwards
Put(f, k, v) == [x \in DOMAIN f \cup {k} |-> IF x = k THEN v ELSE f[x]]

\* DEL key
Del(f, k) == [x \in DOMAIN f \ {k} |-> f[x]]

\* SADD key member, on a family of sets indexed by key suffix
SAdd(idx, k, m) == [idx EXCEPT ![k] = @ \cup {m}]

\* SREM key member
SRem(idx, k, m) == [idx EXCEPT ![k] = @ \ {m}]

----------------------------------------------------------------------------
(* Drug CRUD *)

\* getDrug(ndc): the stored record, or null; Exists(ndc) is `drug !== null`
Exists(ndc) == ndc \in DOMAIN drugs
getDrug(ndc) == drugs[ndc]

\* variant of addDrugWrites: the SADD to the tier set is missing
addDrugWrites_noTierAdd(drug) ==
  /\ drugs' = Put(drugs, drug.ndc, drug)
  /\ tierIdx' = tierIdx
  /\ searchIdx' = [t \in DOMAIN searchIdx |->
                     IF t \in IndexTerms(drug) THEN searchIdx[t] \cup {drug.ndc}
                                               ELSE searchIdx[t]]
  /\ paIdx' = IF drug.requiresPA THEN paIdx \cup {drug.ndc} ELSE paIdx
  /\ stIdx' = IF drug.stepTherapy THEN stIdx \cup {drug.ndc} ELSE stIdx
  /\ classIdx' = IF drug.therapeuticClass # NoClass
                 THEN SAdd(classIdx, toLowerCase(drug.therapeuticClass), drug.ndc)
                 ELSE classIdx

\* variant of addDrugWrites: the SADD to pa-required is not guarded by the flag
addDrugWrites_paAlways(drug) ==
  /\ drugs' = Put(drugs, drug.ndc, drug)
  /\ tierIdx' = SAdd(tierIdx, drug.tier, drug.ndc)
  /\ searchIdx' = [t \in DOMAIN searchIdx |->
                     IF t \in IndexTerms(drug) THEN searchIdx[t] \cup {drug.ndc}
                                               ELSE searchIdx[t]]
  /\ paIdx' = paIdx \cup {drug.ndc}
  /\ stIdx' = IF drug.stepTherapy THEN stIdx \cup {drug.ndc} ELSE stIdx
  /\ classIdx' = IF drug.therapeuticClass # NoClass
                 THEN SAdd(classIdx, toLowerCase(drug.therapeuticClass), drug.ndc)
                 ELSE classIdx

\* variant of addDrugWrites: the id is taken out of the other tier sets
addDrugWrites_moveTier(drug) ==
  /\ drugs' = Put(drugs, drug.ndc, drug)
  /\ tierIdx' = [t \in DOMAIN tierIdx |->
                   IF t = drug.tier THEN tierIdx[t] \cup {drug.ndc}
                                    ELSE tierIdx[t] \ {drug.ndc}]
  /\ searchIdx' = [t \in DOMAIN searchIdx |->
                     IF t \in IndexTerms(drug) THEN searchIdx[t] \cup {drug.ndc}
                                               ELSE searchIdx[t]]
  /\ paIdx' = IF drug.requiresPA THEN paIdx \cup {drug.ndc} ELSE paIdx
  /\ stIdx' = IF drug.stepTherapy THEN stIdx \cup {drug.ndc} ELSE stIdx
  /\ classIdx' = IF drug.therapeuticClass # NoClass
                 THEN SAdd(classIdx, toLowerCase(drug.therapeuticClass), drug.ndc)
                 ELSE classIdx

\* the store writes of addDrug(drug), lines 105-142
addDrugWrites(drug) ==
  /\ drugs' = Put(drugs, drug.ndc, drug)
  /\ tierIdx' = SAdd(tierIdx, drug.tier, drug.ndc)
  /\ searchIdx' = [t \in DOMAIN searchIdx |->
                     IF t \in IndexTerms(drug) THEN searchIdx[t] \cup {drug.ndc}
                                               ELSE searchIdx[t]]
  /\ paIdx' = IF drug.requiresPA THEN paIdx \cup {drug.ndc} ELSE paIdx
  /\ stIdx' = IF drug.stepTherapy THEN stIdx \cup {drug.ndc} ELSE stIdx
  /\ classIdx' = IF drug.therapeuticClass # NoClass
                 THEN SAdd(classIdx, toLowerCase(drug.therapeuticClass), drug.ndc)
                 ELSE classIdx

\* upsertWords once `drug` was upserted
LogWords(drug) == [upsertWords EXCEPT ![drug.ndc] = @ \cup WholeWords(drug)]

addDrug(drug) ==
  /\ steps < MaxSteps /\ upserts < MaxUpserts
  /\ addDrugWrites(drug)
  /\ lastOp' = [op |-> "addDrug", ndc |-> drug.ndc, upd |-> NoArg, drug |-> drug, arg |-> NoArg, ret |-> "void"]
  /\ upsertWords' = LogWords(drug)
  /\ steps' = steps + 1 /\ upserts' = upserts + 1
  /\ UNCHANGED processVars
  /\ UNCHANGED <<workflowVars, now, submitLog, submitters>>

\* { ...existing, ...updates }
Merge(existing, updates) ==
  [f \in DOMAIN existing \cup DOMAIN updates |->
     IF f \in DOMAIN updates THEN updates[f] ELSE existing[f]]

\* variant of updateDrug: an unknown id is not rejected, the updates are
\* stored as its record
updateDrug_upsert(ndc, updates) ==
  /\ steps < MaxSteps /\ upserts < MaxUpserts
  /\ steps' = steps + 1 /\ upserts' = upserts + 1
  /\ UNCHANGED processVars
  /\ UNCHANGED <<workflowVars, now, submitLog, submitters>>
  /\ IF ~Exists(ndc)
     THEN /\ drugs' = Put(drugs, ndc, updates)
          /\ UNCHANGED <<tierIdx, paIdx, stIdx, classIdx, searchIdx, upsertWords>>
          /\ lastOp' = [op |-> "updateDrug", ndc |-> ndc, upd |-> updates, drug |-> NoArg, arg |-> NoArg, ret |-> "true"]
     ELSE LET updated == Merge(getDrug(ndc), updates)
          IN  /\ addDrugWrites(updated)
              /\ upsertWords' = LogWords(updated)
              /\ lastOp' = [op |-> "updateDrug", ndc |-> ndc, upd |-> updates, drug |-> updated, arg |-> NoArg, ret |-> "true"]

updateDrug(ndc, updates) ==
  /\ steps < MaxSteps /\ upserts < MaxUpserts
  /\ steps' = steps + 1 /\ upserts' = upserts + 1
  /\ UNCHANGED processVars
  /\ UNCHANGED <<workflowVars, now, submitLog, submitters>>
  /\ IF ~Exists(ndc)
     THEN /\ UNCHANGED <<catalogVars, upsertWords>>
          /\ lastOp' = [op |-> "updateDrug", ndc |-> ndc, upd |-> updates, drug |-> NoArg, arg |-> NoArg, ret |-> "false"]
     ELSE LET updated == Merge(getDrug(ndc), updates)
          IN  /\ addDrugWrites(updated)
              /\ upsertWords' = LogWords(updated)
              /\ lastOp' = [op |-> "updateDrug", ndc |-> ndc, upd |-> updates, drug |-> updated, arg |-> NoArg, ret |-> "true"]

\* variant of removeDrugWrites: the id is also taken out of the search sets
removeDrugWrites_cleanSearch(ndc, drug) ==
  /\ drugs' = Del(drugs, ndc)
  /\ tierIdx' = SRem(tierIdx, drug.tier, ndc)
  /\ paIdx' = paIdx \ {ndc}
  /\ stIdx' = stIdx \ {ndc}
  /\ classIdx' = IF drug.therapeuticClass # NoClass
                 THEN SRem(classIdx, toLowerCase(drug.therapeuticClass), ndc)
                 ELSE classIdx
  /\ searchIdx' = [t \in DOMAIN searchIdx |-> searchIdx[t] \ {ndc}]

\* variant of removeDrugWrites: the tier set of the record is deleted
removeDrugWrites_clearTier(ndc, drug) ==
  /\ drugs' = Del(drugs, ndc)
  /\ tierIdx' = [tierIdx EXCEPT ![drug.tier] = {}]
  /\ paIdx' = paIdx \ {ndc}
  /\ stIdx' = stIdx \ {ndc}
  /\ classIdx' = IF drug.therapeuticClass # NoClass
                 THEN SRem(classIdx, toLowerCase(drug.therapeuticClass), ndc)
                 ELSE classIdx
  /\ UNCHANGED searchIdx

\* the store writes of removeDrug(ndc) once the record was read, lines 172-187
removeDrugWrites(ndc, drug) ==
  /\ drugs' = Del(drugs, ndc)
  /\ tierIdx' = SRem(tierIdx, drug.tier, ndc)
  /\ paIdx' = paIdx \ {ndc}
  /\ stIdx' = stIdx \ {ndc}
  /\ classIdx' = IF drug.therapeuticClass # NoClass
                 THEN SRem(classIdx, toLowerCase(drug.therapeuticClass), ndc)
                 ELSE classIdx
  /\ UNCHANGED searchIdx

\* variant of removeDrug: the rule and the criteria of the id go with it
removeDrug_cascade(ndc) ==
  /\ steps < MaxSteps
  /\ steps' = steps + 1
  /\ UNCHANGED processVars
  /\ UNCHANGED <<paRequest, patientIdx, now, upserts, historyVars>>
  /\ IF ~Exists(ndc)
     THEN /\ UNCHANGED <<catalogVars, stepRule, paCriteria>>
          /\ lastOp' = [op |-> "removeDrug", ndc |-> ndc, upd |-> NoArg, drug |-> NoArg, arg |-> NoArg, ret |-> "false"]
     ELSE /\ removeDrugWrites(ndc, getDrug(ndc))
          /\ stepRule' = Del(stepRule, ndc)
          /\ paCriteria' = Del(paCriteria, ndc)
          /\ lastOp' = [op |-> "removeDrug", ndc |-> ndc, upd |-> NoArg, drug |-> getDrug(ndc), arg |-> NoArg, ret |-> "true"]

removeDrug(ndc) ==
  /\ steps < MaxSteps
  /\ steps' = steps + 1
  /\ UNCHANGED processVars
  /\ UNCHANGED <<workflowVars, now, upserts, historyVars>>
  /\ IF ~Exists(ndc)
     THEN /\ UNCHANGED catalogVars
          /\ lastOp' = [op |-> "removeDrug", ndc |-> ndc, upd |-> NoArg, drug |-> NoArg, arg |-> NoArg, ret |-> "false"]
     ELSE /\ removeDrugWrites(ndc, getDrug(ndc))
          /\ lastOp' = [op |-> "removeDrug", ndc |-> ndc, upd |-> NoArg, drug |-> getDrug(ndc), arg |-> NoArg, ret |-> "true"]

----------------------------------------------------------------------------
(* Search and query operations.  A Redis set has no order: SMEMBERS and    *)
(* SINTER return the members in an order the store picks, so each query is *)
(* the set of the lists it can return.                                     *)

\* SMEMBERS key: the members, empty for a key that does not exist
SMembers(idx, k) == IF k \in DOMAIN idx THEN idx[k] ELSE {}

\* the orders in which the store can list the members of set S
Orders(S) == {o \in [1..Cardinality(S) -> S] : Range(o) = S}

\* variant of Fetch: the `if (drug)` test is missing, an id without a record
\* yields an entry too
Fetch_keepMissing(ndcs) ==
  [i \in 1..Len(ndcs) |-> IF Exists(ndcs[i]) THEN getDrug(ndcs[i]) ELSE [ndc |-> ndcs[i]]]

\* for (const ndc of ndcs) { const drug = await getDrug(ndc); if (drug) drugs.push(drug) }
Fetch(ndcs) ==
  LET found == SelectSeq(ndcs, LAMBDA n : Exists(n))
  IN  [i \in 1..Len(found) |-> getDrug(found[i])]

\* ndcs.slice(0, limit)
Slice(ndcs, limit) == SubSeq(ndcs, 1, Min(limit, Len(ndcs)))

\* default of searchDrugs' limit parameter
DefaultSearchLimit == 50

\* variant of SearchNdcs: the SINTER is missing, the first term's members
\* are the ids resolved
SearchNdcs_firstOnly(terms) == SMembers(searchIdx, terms[1])

\* the ids searchDrugs resolves for the query's terms: SMEMBERS of the first
\* term's set, or SINTER of all the terms' sets when there are several
SearchNdcs(terms) ==
  IF Len(terms) > 1
  THEN {n \in SMembers(searchIdx, terms[1]) :
          \A i \in 1..Len(terms) : n \in SMembers(searchIdx, terms[i])}
  ELSE SMembers(searchIdx, terms[1])

searchDrugs(query, limit) ==
  LET terms == QueryTerms(query)
  IN  IF Len(terms) = 0 THEN {<<>>}
      ELSE {Fetch(Slice(o, limit)) : o \in Orders(SearchNdcs(terms))}

getDrugsByTier(tier) == {Fetch(o) : o \in Orders(SMembers(tierIdx, tier))}

getDrugsRequiringPA == {Fetch(o) : o \in Orders(paIdx)}

getDrugsWithStepTherapy == {Fetch(o) : o \in Orders(stIdx)}

\* variant of getDrugsByClass: the label is not lower-cased
getDrugsByClass_caseSensitive(therapeuticClass) ==
  {Fetch(o) : o \in Orders(SMembers(classIdx, therapeuticClass))}

getDrugsByClass(therapeuticClass) ==
  {Fetch(o) : o \in Orders(SMembers(classIdx, toLowerCase(therapeuticClass)))}

\* FormularySearchOptions: a record of some of the fields tier, requiresPA,
\* stepTherapy, therapeuticClass, limit; a field that is not in the record's
\* DOMAIN is undefined
Has(options, field) == field \in DOMAIN options

\* variant of AdvancedSets: a flag that is present pushes its set whatever
\* its value
AdvancedSets_presentFlags(options) ==
  (IF Has(options, "tier") THEN <<SMembers(tierIdx, options.tier)>> ELSE <<>>)
  \o (IF Has(options, "requiresPA") THEN <<paIdx>> ELSE <<>>)
  \o (IF Has(options, "stepTherapy") THEN <<stIdx>> ELSE <<>>)
  \o (IF Has(options, "therapeuticClass") /\ options.therapeuticClass # NoClass
      THEN <<SMembers(classIdx, toLowerCase(options.therapeuticClass))>> ELSE <<>>)

\* variant of AdvancedSets: a flag that is present with value false pushes
\* the stored ids that are not in the flag's set
AdvancedSets_falseExcludes(options) ==
  (IF Has(options, "tier") THEN <<SMembers(tierIdx, options.tier)>> ELSE <<>>)
  \o (IF Has(options, "requiresPA")
      THEN <<IF options.requiresPA THEN paIdx ELSE DOMAIN drugs \ paIdx>> ELSE <<>>)
  \o (IF Has(options, "stepTherapy")
      THEN <<IF options.stepTherapy THEN stIdx ELSE DOMAIN drugs \ stIdx>> ELSE <<>>)
  \o (IF Has(options, "therapeuticClass") /\ options.therapeuticClass # NoClass
      THEN <<SMembers(classIdx, toLowerCase(options.therapeuticClass))>> ELSE <<>>)

\* advancedSearch's `sets`: the index sets its tests push, in order
AdvancedSets(options) ==
  (IF Has(options, "tier") THEN <<SMembers(tierIdx, options.tier)>> ELSE <<>>)
  \o (IF Has(options, "requiresPA") /\ options.requiresPA THEN <<paIdx>> ELSE <<>>)
  \o (IF Has(options, "stepTherapy") /\ options.stepTherapy THEN <<stIdx>> ELSE <<>>)
  \o (IF Has(options, "therapeuticClass") /\ options.therapeuticClass # NoClass
      THEN <<SMembers(classIdx, toLowerCase(options.therapeuticClass))>> ELSE <<>>)

\* options.limit || 100
DefaultAdvancedLimit == 100
AdvancedLimit(options) ==
  IF Has(options, "limit") /\ options.limit # 0 THEN options.limit ELSE DefaultAdvancedLimit

\* variant of advancedSearch: without a filter set every stored id is
\* resolved
advancedSearch_fullScan(options) ==
  LET sets == AdvancedSets(options)
      ndcs == IF Len(sets) = 0 THEN DOMAIN drugs
              ELSE {n \in sets[1] : \A i \in 1..Len(sets) : n \in sets[i]}
  IN  {Fetch(Slice(o, AdvancedLimit(options))) : o \in Orders(ndcs)}

advancedSearch(options) ==
  LET sets == AdvancedSets(options)
  IN  IF Len(sets) = 0 THEN {<<>>}
      ELSE LET ndcs == {n \in sets[1] : \A i \in 1..Len(sets) : n \in sets[i]}
           IN  {Fetch(Slice(o, AdvancedLimit(options))) : o \in Orders(ndcs)}

\* key.split(":"), last part: the characters after the last ":" of a key
RECURSIVE LastPart(_)
LastPart(key) ==
  IF \E i \in 1..Len(key) : key[i] = ":"
  THEN LastPart(SubSeq(key, 1 + (CHOOSE i \in 1..Len(key) : key[i] = ":" /\
                                   \A j \in 1..(i - 1) : key[j] # ":"), Len(key)))
  ELSE key

\* scanAll(`${prefix}:class:*`): the class keys that exist, by their part
\* after `${prefix}:class:`; the store holds no key for an empty set
ClassKeysStored == {c \in DOMAIN classIdx : classIdx[c] # {}}

\* getTherapeuticClasses(): the labels returned, in some order
getTherapeuticClasses ==
  {label \in {LastPart(c) : c \in ClassKeysStored} : Len(label) > 0}

\* the last tier of `for (let tier = 1; tier <= 5; tier++)`
LastTier == 5

RECURSIVE SumCard(_, _)
\* the sum of SCARD tier:<t> for t = from .. LastTier
SumCard(idx, from) ==
  IF from > LastTier THEN 0
  ELSE Cardinality(SMembers(idx, from)) + SumCard(idx, from + 1)

getFormularyStats ==
  [totalDrugs  |-> SumCard(tierIdx, 1),
   drugsByTier |-> [t \in 1..LastTier |-> Cardinality(SMembers(tierIdx, t))],
   paRequired  |-> Cardinality(paIdx),
   stepTherapy |-> Cardinality(stIdx)]

RECURSIVE ExportFrom(_)
\* exportFormulary's loop from tier `from` on: the lists of getDrugsByTier
\* for each tier up to LastTier, appended in tier order
ExportFrom(from) ==
  IF from > LastTier THEN {<<>>}
  ELSE {a \o b : a \in getDrugsByTier(from), b \in ExportFrom(from + 1)}

exportFormulary == ExportFrom(1)

----------------------------------------------------------------------------
(* Step therapy and prior authorization *)

\* variant of addStepTherapyRule: the rule is stored only when the id has
\* none yet (SET ... NX)
addStepTherapyRule_keepFirst(rule) ==
  /\ steps < MaxSteps
  /\ steps' = steps + 1
  /\ UNCHANGED processVars
  /\ stepRule' = IF rule.drugNDC \in DOMAIN stepRule THEN stepRule
                  ELSE Put(stepRule, rule.drugNDC, rule)
  /\ lastOp' = [op |-> "addStepTherapyRule", ndc |-> rule.drugNDC, upd |-> NoArg, drug |-> NoArg, arg |-> rule, ret |-> "void"]
  /\ UNCHANGED <<catalogVars, paCriteria, paRequest, patientIdx, now, upserts, historyVars>>

addStepTherapyRule(rule) ==
  /\ steps < MaxSteps
  /\ steps' = steps + 1
  /\ UNCHANGED processVars
  /\ stepRule' = Put(stepRule, rule.drugNDC, rule)
  /\ lastOp' = [op |-> "addStepTherapyRule", ndc |-> rule.drugNDC, upd |-> NoArg, drug |-> NoArg, arg |-> rule, ret |-> "void"]
  /\ UNCHANGED <<catalogVars, paCriteria, paRequest, patientIdx, now, upserts, historyVars>>

\* the value getJSON returns for a key that does not exist
Null == [null |-> TRUE]

getStepTherapyRule(drugNDC) ==
  IF drugNDC \in DOMAIN stepRule THEN stepRule[drugNDC] ELSE Null

\* variant of checkStepTherapyCompliance: one required drug in the history
\* is enough to comply
checkStepTherapyCompliance_anyTried(drugNDC, patientHistory) ==
  LET rule == getStepTherapyRule(drugNDC)
  IN  IF rule = Null THEN [compliant |-> TRUE, missingDrugs |-> <<>>]
      ELSE LET missingDrugs == SelectSeq(rule.requiredDrugs,
                                         LAMBDA reqNDC : reqNDC \notin Range(patientHistory))
           IN  [compliant |-> Len(missingDrugs) < Len(rule.requiredDrugs),
                missingDrugs |-> missingDrugs]

checkStepTherapyCompliance(drugNDC, patientHistory) ==
  LET rule == getStepTherapyRule(drugNDC)
  IN  IF rule = Null THEN [compliant |-> TRUE, missingDrugs |-> <<>>]
      ELSE LET missingDrugs == SelectSeq(rule.requiredDrugs,
                                         LAMBDA reqNDC : reqNDC \notin Range(patientHistory))
           IN  [compliant |-> Len(missingDrugs) = 0, missingDrugs |-> missingDrugs]

addPACriteria(criteria) ==
  /\ steps < MaxSteps
  /\ steps' = steps + 1
  /\ UNCHANGED processVars
  /\ paCriteria' = Put(paCriteria, criteria.drugNDC, criteria)
  /\ lastOp' = [op |-> "addPACriteria", ndc |-> criteria.drugNDC, upd |-> NoArg, drug |-> NoArg, arg |-> criteria, ret |-> "void"]
  /\ UNCHANGED <<catalogVars, stepRule, paRequest, patientIdx, now, upserts, historyVars>>

\* variant of submitPARequest: a request id that is stored is left as it is
\* (SET ... NX)
submitPARequest_keepExisting(requestId, drugNDC, patientId, prescriberId) ==
  /\ steps < MaxSteps
  /\ steps' = steps + 1
  /\ UNCHANGED processVars
  /\ LET data == [requestId |-> requestId, drugNDC |-> drugNDC, patientId |-> patientId,
                  prescriberId |-> prescriberId, status |-> "pending", submittedAt |-> now]
     IN  paRequest' = IF requestId \in DOMAIN paRequest THEN paRequest
                      ELSE Put(paRequest, requestId,
                               [data |-> data, expiresAt |-> now + PARequestTtlDays])
  /\ patientIdx' = Put(patientIdx, patientId,
                       (IF patientId \in DOMAIN patientIdx THEN patientIdx[patientId] ELSE {})
                         \cup {requestId})
  /\ lastOp' = [op |-> "submitPARequest", ndc |-> drugNDC, upd |-> NoArg, drug |-> NoArg,
                arg |-> [requestId |-> requestId, drugNDC |-> drugNDC, patientId |-> patientId,
                         prescriberId |-> prescriberId],
                ret |-> "void"]
  /\ submitLog' = Put(submitLog, requestId, now)
  /\ submitters' = Put(submitters, requestId,
                       (IF requestId \in DOMAIN submitters THEN submitters[requestId] ELSE {})
                         \cup {patientId})
  /\ UNCHANGED <<catalogVars, stepRule, paCriteria, now, upserts, upsertWords>>

\* variant of submitPARequest: the patient's index is SET to the request id
\* instead of SADDed to
submitPARequest_replaceIndex(requestId, drugNDC, patientId, prescriberId) ==
  /\ steps < MaxSteps
  /\ steps' = steps + 1
  /\ UNCHANGED processVars
  /\ LET data == [requestId |-> requestId, drugNDC |-> drugNDC, patientId |-> patientId,
                  prescriberId |-> prescriberId, status |-> "pending", submittedAt |-> now]
     IN  paRequest' = Put(paRequest, requestId, [data |-> data, expiresAt |-> now + PARequestTtlDays])
  /\ patientIdx' = Put(patientIdx, patientId, {requestId})
  /\ lastOp' = [op |-> "submitPARequest", ndc |-> drugNDC, upd |-> NoArg, drug |-> NoArg,
                arg |-> [requestId |-> requestId, drugNDC |-> drugNDC, patientId |-> patientId,
                         prescriberId |-> prescriberId],
                ret |-> "void"]
  /\ submitLog' = Put(submitLog, requestId, now)
  /\ submitters' = Put(submitters, requestId,
                       (IF requestId \in DOMAIN submitters THEN submitters[requestId] ELSE {})
                         \cup {patientId})
  /\ UNCHANGED <<catalogVars, stepRule, paCriteria, now, upserts, upsertWords>>

submitPARequest(requestId, drugNDC, patientId, prescriberId) ==
  /\ steps < MaxSteps
  /\ steps' = steps + 1
  /\ UNCHANGED processVars
  /\ LET data == [requestId |-> requestId, drugNDC |-> drugNDC, patientId |-> patientId,
                  prescriberId |-> prescriberId, status |-> "pending", submittedAt |-> now]
     IN  paRequest' = Put(paRequest, requestId, [data |-> data, expiresAt |-> now + PARequestTtlDays])
  /\ patientIdx' = Put(patientIdx, patientId,
                       (IF patientId \in DOMAIN patientIdx THEN patientIdx[patientId] ELSE {})
                         \cup {requestId})
  /\ lastOp' = [op |-> "submitPARequest", ndc |-> drugNDC, upd |-> NoArg, drug |-> NoArg,
                arg |-> [requestId |-> requestId, drugNDC |-> drugNDC, patientId |-> patientId,
                         prescriberId |-> prescriberId],
                ret |-> "void"]
  /\ submitLog' = Put(submitLog, requestId, now)
  /\ submitters' = Put(submitters, requestId,
                       (IF requestId \in DOMAIN submitters THEN submitters[requestId] ELSE {})
                         \cup {patientId})
  /\ UNCHANGED <<catalogVars, stepRule, paCriteria, now, upserts, upsertWords>>

getPACriteria(drugNDC) ==
  IF drugNDC \in DOMAIN paCriteria THEN paCriteria[drugNDC] ELSE Null

\* getPAStatus(requestId): the stored request, or null once its key is gone
getPAStatus(requestId) ==
  IF requestId \in DOMAIN paRequest THEN paRequest[requestId].data ELSE Null

\* time passes by d days; the store drops the keys whose TTL has run out
Tick(d) ==
  /\ steps < MaxSteps
  /\ steps' = steps + 1
  /\ UNCHANGED processVars
  /\ now' = now + d
  /\ paRequest' = [r \in {x \in DOMAIN paRequest : paRequest[x].expiresAt > now + d} |-> paRequest[r]]
  /\ lastOp' = [op |-> "tick", ndc |-> "", upd |-> NoArg, drug |-> NoArg, arg |-> NoArg, ret |-> "void"]
  /\ UNCHANGED <<catalogVars, stepRule, paCriteria, patientIdx, upserts, historyVars>>

----------------------------------------------------------------------------
(* Calls run one store command at a time.  Each `await` of a store       *)
(* command is a step of its own: between two steps another caller's      *)
(* command can run, and a command can fail, which ends the call with the *)
(* error raised to its caller.                                           *)

Callers == {"c1", "c2"}

\* the store commands of the catalog calls
Cmd(cmd, set, key, ndc, drug) == [cmd |-> cmd, set |-> set, key |-> key, ndc |-> ndc, drug |-> drug]

\* variant of AddDrugOps: the id is taken out of the other tier sets
AddDrugOps_moveTier(drug) ==
  LET searchTerms == SelectSeq(split(toLowerCase(drug.name)) \o split(toLowerCase(drug.genericName)),
                               LAMBDA term : Len(term) >= MinTermLen)
      others == CHOOSE q \in [1..Cardinality(Tiers \ {drug.tier}) -> Tiers \ {drug.tier}] :
                  Range(q) = Tiers \ {drug.tier}
  IN  <<Cmd("SET", "drug", drug.ndc, drug.ndc, drug), Cmd("SADD", "tier", drug.tier, drug.ndc, NoArg)>>
      \o [i \in 1..Len(others) |-> Cmd("SREM", "tier", others[i], drug.ndc, NoArg)]
      \o [i \in 1..Len(searchTerms) |-> Cmd("SADD", "search", searchTerms[i], drug.ndc, NoArg)]
      \o (IF drug.requiresPA THEN <<Cmd("SADD", "pa", "", drug.ndc, NoArg)>> ELSE <<>>)
      \o (IF drug.stepTherapy THEN <<Cmd("SADD", "st", "", drug.ndc, NoArg)>> ELSE <<>>)
      \o (IF drug.therapeuticClass # NoClass
          THEN <<Cmd("SADD", "class", toLowerCase(drug.therapeuticClass), drug.ndc, NoArg)>>
          ELSE <<>>)

\* variant of AddDrugOps: the flag sets follow the flags, the id is taken
\* out of a flag set when the flag is false
AddDrugOps_syncFlags(drug) ==
  LET searchTerms == SelectSeq(split(toLowerCase(drug.name)) \o split(toLowerCase(drug.genericName)),
                               LAMBDA term : Len(term) >= MinTermLen)
  IN  <<Cmd("SET", "drug", drug.ndc, drug.ndc, drug), Cmd("SADD", "tier", drug.tier, drug.ndc, NoArg)>>
      \o [i \in 1..Len(searchTerms) |-> Cmd("SADD", "search", searchTerms[i], drug.ndc, NoArg)]
      \o <<Cmd(IF drug.requiresPA THEN "SADD" ELSE "SREM", "pa", "", drug.ndc, NoArg)>>
      \o <<Cmd(IF drug.stepTherapy THEN "SADD" ELSE "SREM", "st", "", drug.ndc, NoArg)>>
      \o (IF drug.therapeuticClass # NoClass
          THEN <<Cmd("SADD", "class", toLowerCase(drug.therapeuticClass), drug.ndc, NoArg)>>
          ELSE <<>>)

\* addDrug(drug): the commands it awaits, in order (lines 107-141)
AddDrugOps(drug) ==
  LET searchTerms == SelectSeq(split(toLowerCase(drug.name)) \o split(toLowerCase(drug.genericName)),
                               LAMBDA term : Len(term) >= MinTermLen)
  IN  <<Cmd("SET", "drug", drug.ndc, drug.ndc, drug), Cmd("SADD", "tier", drug.tier, drug.ndc, NoArg)>>
      \o [i \in 1..Len(searchTerms) |-> Cmd("SADD", "search", searchTerms[i], drug.ndc, NoArg)]
      \o (IF drug.requiresPA THEN <<Cmd("SADD", "pa", "", drug.ndc, NoArg)>> ELSE <<>>)
      \o (IF drug.stepTherapy THEN <<Cmd("SADD", "st", "", drug.ndc, NoArg)>> ELSE <<>>)
      \o (IF drug.therapeuticClass # NoClass
          THEN <<Cmd("SADD", "class", toLowerCase(drug.therapeuticClass), drug.ndc, NoArg)>>
          ELSE <<>>)

\* variant of RemoveDrugOps: only the record is deleted
RemoveDrugOps_recordOnly(ndc, drug) ==
  <<Cmd("DEL", "drug", ndc, ndc, NoArg)>>

\* removeDrug(ndc) once getDrug returned `drug`: the commands it awaits,
\* in order (lines 173-187)
RemoveDrugOps(ndc, drug) ==
  <<Cmd("DEL", "drug", ndc, ndc, NoArg), Cmd("SREM", "tier", drug.tier, ndc, NoArg),
    Cmd("SREM", "pa", "", ndc, NoArg), Cmd("SREM", "st", "", ndc, NoArg)>>
  \o (IF drug.therapeuticClass # NoClass
      THEN <<Cmd("SREM", "class", toLowerCase(drug.therapeuticClass), ndc, NoArg)>>
      ELSE <<>>)

\* the store runs one command
ApplyOp(op) ==
  /\ drugs' = IF op.set # "drug" THEN drugs
              ELSE IF op.cmd = "SET" THEN Put(drugs, op.ndc, op.drug)
              ELSE IF op.cmd = "DEL" THEN Del(drugs, op.ndc) ELSE drugs
  /\ tierIdx' = IF op.set # "tier" THEN tierIdx
                ELSE IF op.cmd = "SADD" THEN SAdd(tierIdx, op.key, op.ndc)
                                        ELSE SRem(tierIdx, op.key, op.ndc)
  /\ searchIdx' = IF op.set # "search" THEN searchIdx ELSE SAdd(searchIdx, op.key, op.ndc)
  /\ paIdx' = IF op.set # "pa" THEN paIdx
              ELSE IF op.cmd = "SADD" THEN paIdx \cup {op.ndc} ELSE paIdx \ {op.ndc}
  /\ stIdx' = IF op.set # "st" THEN stIdx
              ELSE IF op.cmd = "SADD" THEN stIdx \cup {op.ndc} ELSE stIdx \ {op.ndc}
  /\ classIdx' = IF op.set # "class" THEN classIdx
                 ELSE IF op.cmd = "SADD" THEN SAdd(classIdx, op.key, op.ndc)
                                         ELSE SRem(classIdx, op.key, op.ndc)

\* a caller that has no call in progress.  A call in progress has: op, its
\* name; arg, its argument; todo, the commands the current addDrug or
\* removeDrug still awaits; queue, the records bulkImportDrugs has not yet
\* started; success and failed, its counters; ret, what it returned.
\* History: applied, the commands that were run; outcomes, how the
\* addDrug of each record ended; raced, whether one of its commands ran
\* between two commands of another caller's call.
IdleCall ==
  [op |-> "idle", status |-> "idle", arg |-> NoArg, todo |-> <<>>, applied |-> <<>>,
   queue |-> <<>>, outcomes |-> <<>>, success |-> 0, failed |-> 0, ret |-> "none",
   raced |-> FALSE]

\* another caller's call has run a command and awaits its next one
MidCall(c) ==
  \E o \in Callers \ {c} : calls[o].status = "running" /\ calls[o].applied # <<>>

\* the variables a store command of a catalog call leaves alone
sequentialVars == <<workflowVars, now, upserts, lastOp, historyVars, lockVars, serviceVars>>

\* the records drawn for the calls that run one command at a time: two
\* records of id "A" that differ in every indexed field, one of id "B"
StepPool ==
  { [ndc |-> "A", name |-> <<"a","b">>, genericName |-> <<"A","b","c">>, tier |-> 1,
     requiresPA |-> TRUE, stepTherapy |-> FALSE, therapeuticClass |-> <<"S","t">>],
    [ndc |-> "A", name |-> <<"w","x","y","z">>, genericName |-> <<"d","e">>, tier |-> 2,
     requiresPA |-> FALSE, stepTherapy |-> TRUE, therapeuticClass |-> <<"b","x">>],
    [ndc |-> "B", name |-> <<"a","b">>, genericName |-> <<"A","b","c">>, tier |-> 1,
     requiresPA |-> FALSE, stepTherapy |-> FALSE, therapeuticClass |-> NoClass] }

\* the record lists bulkImportDrugs is called with
BulkInputs == UNION {[1..n -> StepPool] : n \in 0..MaxBulk}

\* variant of AfterAddDrug: the first failure ends the import
AfterAddDrug_abort(call, outcome) ==
  LET counted == [call EXCEPT !.outcomes = Append(@, outcome),
                              !.success = IF outcome = "ok" THEN @ + 1 ELSE @,
                              !.failed = IF outcome = "failed" THEN @ + 1 ELSE @]
  IN  IF counted.queue = <<>> \/ outcome = "failed"
      THEN [counted EXCEPT !.status = "returned", !.todo = <<>>, !.ret = "counts"]
      ELSE [counted EXCEPT !.todo = AddDrugOps(Head(counted.queue)),
                           !.queue = Tail(counted.queue)]

\* bulkImportDrugs when the addDrug of one record has ended: success++ or,
\* in the catch, failed++; then the next record, or return { success, failed }
AfterAddDrug(call, outcome) ==
  LET counted == [call EXCEPT !.outcomes = Append(@, outcome),
                              !.success = IF outcome = "ok" THEN @ + 1 ELSE @,
                              !.failed = IF outcome = "failed" THEN @ + 1 ELSE @]
  IN  IF counted.queue = <<>>
      THEN [counted EXCEPT !.status = "returned", !.todo = <<>>, !.ret = "counts"]
      ELSE [counted EXCEPT !.todo = AddDrugOps(Head(counted.queue)),
                           !.queue = Tail(counted.queue)]

\* the addDrug or removeDrug the call was running has ended: it completed
\* ("ok") or a store command failed ("failed"), which raises to the caller
Ended(call, outcome) ==
  IF call.op = "bulkImportDrugs" THEN AfterAddDrug(call, outcome)
  ELSE IF outcome = "ok"
       THEN [call EXCEPT !.status = "returned", !.todo = <<>>,
                         !.ret = IF call.op = "addDrug" THEN "void" ELSE "true"]
       ELSE [call EXCEPT !.status = "raised", !.todo = <<>>, !.ret = "raised"]

CallAddDrug(c, drug) ==
  /\ calls[c].status = "idle" /\ steps < MaxCalls
  /\ steps' = steps + 1
  /\ calls' = [calls EXCEPT ![c] = [IdleCall EXCEPT !.op = "addDrug", !.status = "running",
                                                    !.arg = drug, !.todo = AddDrugOps(drug)]]
  /\ UNCHANGED <<catalogVars, sequentialVars>>

\* removeDrug(ndc) starts by reading the record: getDrug
CallRemoveDrug(c, ndc) ==
  /\ calls[c].status = "idle" /\ steps < MaxCalls
  /\ steps' = steps + 1
  /\ calls' = [calls EXCEPT ![c] = [IdleCall EXCEPT !.op = "removeDrug", !.status = "running",
                                                    !.arg = ndc,
                                                    !.todo = <<Cmd("GET", "drug", ndc, ndc, NoArg)>>]]
  /\ UNCHANGED <<catalogVars, sequentialVars>>

CallBulkImport(c, records) ==
  /\ calls[c].status = "idle" /\ steps < MaxCalls
  /\ steps' = steps + 1
  /\ calls' = [calls EXCEPT ![c] =
                 IF records = <<>>
                 THEN [IdleCall EXCEPT !.op = "bulkImportDrugs", !.status = "returned",
                                       !.arg = records, !.ret = "counts"]
                 ELSE [IdleCall EXCEPT !.op = "bulkImportDrugs", !.status = "running",
                                       !.arg = records, !.todo = AddDrugOps(Head(records)),
                                       !.queue = Tail(records)]]
  /\ UNCHANGED <<catalogVars, sequentialVars>>

\* the command the call awaits completes
StoreOpOk(c) ==
  /\ calls[c].status = "running" /\ calls[c].todo # <<>>
  /\ LET op == Head(calls[c].todo)
     IN  IF op.cmd = "GET"
         THEN /\ UNCHANGED catalogVars
              /\ calls' = [calls EXCEPT ![c] =
                             IF Exists(op.ndc)
                             THEN [@ EXCEPT !.todo = RemoveDrugOps(op.ndc, getDrug(op.ndc))]
                             ELSE [@ EXCEPT !.status = "returned", !.todo = <<>>, !.ret = "false"]]
         ELSE /\ ApplyOp(op)
              /\ LET next == [calls[c] EXCEPT !.todo = Tail(@), !.applied = Append(@, op),
                                              !.raced = @ \/ MidCall(c)]
                 IN  calls' = [calls EXCEPT ![c] = IF next.todo = <<>> THEN Ended(next, "ok")
                                                                       ELSE next]
  /\ UNCHANGED <<steps, sequentialVars>>

\* variant of StoreOpFails: a failing addDrug takes its record back
StoreOpFails_rollback(c, written) ==
  /\ calls[c].status = "running" /\ calls[c].todo # <<>>
  /\ drugs' = IF calls[c].op = "addDrug" THEN Del(drugs, calls[c].arg.ndc) ELSE drugs
  /\ UNCHANGED <<tierIdx, paIdx, stIdx, classIdx, searchIdx>>
  /\ calls' = [calls EXCEPT ![c] = Ended(@, "failed")]
  /\ UNCHANGED <<steps, sequentialVars>>

\* the command the call awaits fails: the error is raised where it was
\* awaited.  The store may have run the command before the failure
\* (`written`) or not.
StoreOpFails(c, written) ==
  /\ calls[c].status = "running" /\ calls[c].todo # <<>>
  /\ LET op == Head(calls[c].todo)
         ran == written /\ op.cmd # "GET"
     IN  /\ IF ran THEN ApplyOp(op) ELSE UNCHANGED catalogVars
         /\ calls' = [calls EXCEPT ![c] =
                        Ended([@ EXCEPT !.applied = IF ran THEN Append(@, op) ELSE @], "failed")]
  /\ UNCHANGED <<steps, sequentialVars>>

\* the caller takes the outcome of its call
Return(c) ==
  /\ calls[c].status \in {"returned", "raised"}
  /\ calls' = [calls EXCEPT ![c] = IdleCall]
  /\ UNCHANGED <<catalogVars, steps, sequentialVars>>

----------------------------------------------------------------------------
(* LockController: acquire and release on one key, one store command at a
   time *)

LockCallers == {"p1", "p2"}

\* options.timeout, in seconds, and options.retries
Timeouts == {1, 2}
RetryCounts == {0, 1}

\* generateToken(): the caller's n-th token; no two calls draw the same one
Token(p, n) == [by |-> p, n |-> n]
NoToken == Token("", 0)

\* the key does not exist
NoLock == [token |-> NoToken, expiresAt |-> 0]

\* the key exists: it was set and its expiry time has not come
Live == lockStore.token # NoToken /\ clock < lockStore.expiresAt

\* GET key
LockGet == IF Live THEN lockStore.token ELSE NoToken

\* a lock caller between calls.  During a call: pc, the command it awaits;
\* token, the lockToken of acquire or the token given to release; attempts,
\* the loop counter of acquire; currentToken, what release read; ret, the
\* return value ("token", "null", "true", "false").  History: acquires, the
\* acquire calls it made; tried, the SET commands of this call; deleted,
\* the token of the lock its DEL removed.
IdleLockCall ==
  [op |-> "idle", pc |-> "idle", token |-> NoToken, timeout |-> 0, retries |-> 0,
   attempts |-> 0, currentToken |-> NoToken, ret |-> "none",
   acquires |-> 0, tried |-> 0, deleted |-> NoToken]

\* the variables the lock calls leave alone
catalogSide == <<storeVars, now, steps, upserts, lastOp, historyVars, calls, serviceVars>>

\* acquire(key, { timeout, retries }): lockToken = generateToken(), attempts = 0
CallAcquire(p, timeout, retries) ==
  /\ lockCalls[p].pc \in {"idle", "done"} /\ lockCalls[p].acquires < MaxAcquire
  /\ lockCalls' = [lockCalls EXCEPT ![p] =
                     [IdleLockCall EXCEPT !.op = "acquire", !.pc = "set",
                                          !.token = Token(p, lockCalls[p].acquires + 1),
                                          !.timeout = timeout, !.retries = retries,
                                          !.acquires = lockCalls[p].acquires + 1]]
  /\ UNCHANGED <<lockStore, clock, catalogSide>>

\* variant of AcquireSet: SET without NX
AcquireSet_noNX(p) ==
  /\ lockCalls[p].op = "acquire" /\ lockCalls[p].pc = "set"
  /\ lockStore' = [token |-> lockCalls[p].token, expiresAt |-> clock + lockCalls[p].timeout]
  /\ lockCalls' = [lockCalls EXCEPT ![p] = [@ EXCEPT !.pc = "done", !.ret = "token",
                                                     !.tried = @ + 1]]
  /\ UNCHANGED <<clock, catalogSide>>

\* SET key lockToken NX EX timeout, and what acquire does with the result:
\* return lockToken on "OK"; otherwise sleep when attempts < retries, or
\* attempts++ and, the loop being over, return null
AcquireSet(p) ==
  /\ lockCalls[p].op = "acquire" /\ lockCalls[p].pc = "set"
  /\ IF ~Live
     THEN /\ lockStore' = [token |-> lockCalls[p].token,
                           expiresAt |-> clock + lockCalls[p].timeout]
          /\ lockCalls' = [lockCalls EXCEPT ![p] = [@ EXCEPT !.pc = "done", !.ret = "token",
                                                             !.tried = @ + 1]]
     ELSE /\ UNCHANGED lockStore
          /\ lockCalls' = [lockCalls EXCEPT ![p] =
                             IF @.attempts < @.retries
                             THEN [@ EXCEPT !.pc = "sleep", !.tried = @ + 1]
                             ELSE [@ EXCEPT !.pc = "done", !.ret = "null", !.tried = @ + 1,
                                            !.attempts = @ + 1, !.token = NoToken]]
  /\ UNCHANGED <<clock, catalogSide>>

\* sleep(retryDelay) is over: attempts++, and the loop goes on
AcquireWake(p) ==
  /\ lockCalls[p].op = "acquire" /\ lockCalls[p].pc = "sleep"
  /\ lockCalls' = [lockCalls EXCEPT ![p] = [@ EXCEPT !.pc = "set", !.attempts = @ + 1]]
  /\ UNCHANGED <<lockStore, clock, catalogSide>>

\* release(key, token) with the token the caller's acquire returned
CallRelease(p) ==
  /\ lockCalls[p].op = "acquire" /\ lockCalls[p].pc = "done" /\ lockCalls[p].ret = "token"
  /\ lockCalls' = [lockCalls EXCEPT ![p] =
                     [IdleLockCall EXCEPT !.op = "release", !.pc = "get",
                                          !.token = lockCalls[p].token,
                                          !.acquires = lockCalls[p].acquires]]
  /\ UNCHANGED <<lockStore, clock, catalogSide>>

\* currentToken = GET key; return false unless currentToken === token
ReleaseGet(p) ==
  /\ lockCalls[p].op = "release" /\ lockCalls[p].pc = "get"
  /\ lockCalls' = [lockCalls EXCEPT ![p] =
                     IF LockGet = @.token
                     THEN [@ EXCEPT !.pc = "del", !.currentToken = LockGet]
                     ELSE [@ EXCEPT !.pc = "done", !.currentToken = LockGet, !.ret = "false"]]
  /\ UNCHANGED <<lockStore, clock, catalogSide>>

\* DEL key; return true
ReleaseDel(p) ==
  /\ lockCalls[p].op = "release" /\ lockCalls[p].pc = "del"
  /\ lockStore' = NoLock
  /\ lockCalls' = [lockCalls EXCEPT ![p] = [@ EXCEPT !.pc = "done", !.ret = "true",
                                                     !.deleted = LockGet]]
  /\ UNCHANGED <<clock, catalogSide>>

\* a second passes
ClockTick ==
  /\ clock < MaxClock
  /\ clock' = clock + 1
  /\ UNCHANGED <<lockStore, lockCalls, catalogSide>>

----------------------------------------------------------------------------
(* CounterController: incrementIfBelow on one counter, one store command
   at a time *)

CounterCallers == {"q1", "q2"}

\* the max arguments drawn for the calls
Maxes == {1, 2}

\* a counter caller between calls.  During a call: pc, the command it
\* awaits; max, the argument; current, what get returned; ret, the return
\* value ("null", or "value" with the new value in value).  History: n, the
\* calls it made.
IdleCounterCall ==
  [pc |-> "idle", max |-> 0, current |-> 0, ret |-> "none", value |-> 0, n |-> 0]

\* the variables the counter calls leave alone
counterSide ==
  <<storeVars, now, steps, upserts, lastOp, historyVars, calls, lockVars, sessionVars>>

\* incrementIfBelow(key, max)
CallIncrementIfBelow(q, max) ==
  /\ counterCalls[q].pc \in {"idle", "done"} /\ counterCalls[q].n < MaxIncr
  /\ counterCalls' = [counterCalls EXCEPT ![q] =
                        [IdleCounterCall EXCEPT !.pc = "get", !.max = max,
                                                !.n = counterCalls[q].n + 1]]
  /\ counterLog' = counterLog \cup {max}
  /\ UNCHANGED <<counterStore, counterSide>>

\* current = await this.get(key): GET key, 0 when the key does not exist;
\* return null when current >= max
CounterGet(q) ==
  /\ counterCalls[q].pc = "get"
  /\ counterCalls' = [counterCalls EXCEPT ![q] =
                        IF counterStore >= @.max
                        THEN [@ EXCEPT !.pc = "done", !.current = counterStore, !.ret = "null"]
                        ELSE [@ EXCEPT !.pc = "incr", !.current = counterStore]]
  /\ UNCHANGED <<counterStore, counterLog, counterSide>>

\* return await this.increment(key): INCR key
CounterIncr(q) ==
  /\ counterCalls[q].pc = "incr"
  /\ counterStore' = counterStore + 1
  /\ counterCalls' = [counterCalls EXCEPT ![q] = [@ EXCEPT !.pc = "done", !.ret = "value",
                                                           !.value = counterStore + 1]]
  /\ UNCHANGED <<counterLog, counterSide>>

----------------------------------------------------------------------------
(* SessionController: create, get and destroyAllForUser *)

Users == {"u1", "u2"}

\* options.ttl, in seconds
SessionTtls == {1, 2}

\* a set key that does not exist
NoSet == [members |-> {}, expiresAt |-> 0]

\* SMEMBERS user_sessions:${userId}: the members, none once the key expired
SessionIds(userId) ==
  IF clock < userSessions[userId].expiresAt THEN userSessions[userId].members ELSE {}

\* getJSON(sessionId): the stored session, null once the key expired
StoredSession(sessionId) ==
  IF sessionId \in DOMAIN sessionStore /\ clock < sessionStore[sessionId].expiresAt
  THEN sessionStore[sessionId].data
  ELSE Null

\* get(sessionId): the session, or null when it is not stored or
\* Date.now() > session.expiresAt
sessionGet(sessionId) ==
  LET session == StoredSession(sessionId)
  IN  IF session = Null THEN Null
      ELSE IF clock > session.expiresAt THEN Null
      ELSE session

\* generateSessionId(): an id no earlier call drew
NewSessionId == Cardinality(DOMAIN created) + 1

\* the variables the session calls leave alone
sessionSide ==
  <<storeVars, now, steps, upserts, historyVars, calls, lockStore, lockCalls, counterVars>>

\* create(userId, data, { ttl }): setJSON(sessionId, sessionData, { EX: ttl }),
\* sadd(user_sessions:userId, sessionId), expire(user_sessions:userId, ttl)
create(userId, ttl) ==
  LET sessionId == NewSessionId
      sessionData == [userId |-> userId, expiresAt |-> clock + ttl]
  IN  /\ Cardinality(DOMAIN created) < MaxSession
      /\ sessionStore' = Put(sessionStore, sessionId,
                              [data |-> sessionData, expiresAt |-> clock + ttl])
      /\ userSessions' = [userSessions EXCEPT ![userId] =
                            [members |-> SessionIds(userId) \cup {sessionId},
                             expiresAt |-> clock + ttl]]
      /\ created' = Put(created, sessionId, sessionData)
      /\ lastOp' = [op |-> "create", ndc |-> "", upd |-> NoArg, drug |-> NoArg,
                    arg |-> userId, ret |-> sessionId]
      /\ UNCHANGED <<clock, sessionSide>>

\* destroyAllForUser(userId): smembers; 0 when there are none; otherwise
\* del(...sessionIds), del(user_sessions:userId), and their number
destroyAllForUser(userId) ==
  LET sessionIds == SessionIds(userId)
  IN  /\ sessionStore' = IF sessionIds = {} THEN sessionStore
                          ELSE [id \in DOMAIN sessionStore \ sessionIds |-> sessionStore[id]]
      /\ userSessions' = IF sessionIds = {} THEN userSessions
                          ELSE [userSessions EXCEPT ![userId] = NoSet]
      /\ lastOp' = [op |-> "destroyAllForUser", ndc |-> "", upd |-> NoArg, drug |-> NoArg,
                    arg |-> userId, ret |-> Cardinality(sessionIds)]
      /\ UNCHANGED <<created, clock, sessionSide>>

----------------------------------------------------------------------------

Init ==
  /\ drugs = [n \in {} |-> n]
  /\ tierIdx = [t \in Tiers |-> {}]
  /\ paIdx = {}
  /\ stIdx = {}
  /\ classIdx = [c \in ClassKeys |-> {}]
  /\ searchIdx = [t \in AllTerms |-> {}]
  /\ stepRule = [n \in {} |-> n]
  /\ paCriteria = [n \in {} |-> n]
  /\ paRequest = [n \in {} |-> n]
  /\ patientIdx = [n \in {} |-> n]
  /\ now = 0
  /\ steps = 0
  /\ upserts = 0
  /\ upsertWords = [n \in NDCs |-> {}]
  /\ submitLog = [n \in {} |-> n]
  /\ submitters = [n \in {} |-> n]
  /\ calls = [c \in Callers |-> IdleCall]
  /\ lockStore = NoLock
  /\ lockCalls = [p \in LockCallers |-> IdleLockCall]
  /\ clock = 0
  /\ counterStore = 0
  /\ counterCalls = [q \in CounterCallers |-> IdleCounterCall]
  /\ counterLog = {}
  /\ sessionStore = [n \in {} |-> n]
  /\ userSessions = [u \in Users |-> NoSet]
  /\ created = [n \in {} |-> n]
  /\ lastOp = [op |-> "init", ndc |-> "", upd |-> NoArg, drug |-> NoArg, arg |-> NoArg, ret |-> "void"]

\* the calls on the catalog alone, with the full range of records and updates
NextCatalog ==
  \/ \E d \in DrugPool : addDrug(d)
  \/ \E n \in NDCs, u \in Updates : updateDrug(n, u)
  \/ \E n \in NDCs : removeDrug(n)

SpecCatalog == Init /\ [][NextCatalog]_vars

\* the calls on the catalog and on the two workflows, and the passing of time
Next ==
  \/ \E d \in CorePool : addDrug(d)
  \/ \E n \in NDCs, u \in CoreUpdates : updateDrug(n, u)
  \/ \E n \in NDCs : removeDrug(n)
  \/ \E r \in Rules : addStepTherapyRule(r)
  \/ \E c \in Criteria : addPACriteria(c)
  \/ \E r \in RequestIds, n \in NDCs, p \in Patients, d \in Prescribers : submitPARequest(r, n, p, d)
  \/ \E d \in TickDays : Tick(d)

Spec == Init /\ [][Next]_vars

\* the calls on the catalog and on the two workflows, among the store
\* commands of one bulkImportDrugs call of one or two records
NextFrame ==
  \/ \E d \in StepPool : addDrug(d)
  \/ \E n \in NDCs : updateDrug(n, [tier |-> 1])
  \/ \E n \in NDCs : removeDrug(n)
  \/ \E r \in {x \in Rules : x.drugNDC = "A"} : addStepTherapyRule(r)
  \/ \E c \in {x \in Criteria : x.drugNDC = "A"} : addPACriteria(c)
  \/ \E n \in NDCs, p \in Patients : submitPARequest("r1", n, p, "dr1")
  \/ \E records \in {r \in BulkInputs : Len(r) \in 1..2} : CallBulkImport("c1", records)
  \/ StoreOpOk("c1")

SpecFrame == Init /\ [][NextFrame]_vars

\* one bulkImportDrugs call whose store commands can fail
NextBulk ==
  \/ \E records \in BulkInputs : CallBulkImport("c1", records)
  \/ StoreOpOk("c1")
  \/ \E written \in BOOLEAN : StoreOpFails("c1", written)

SpecBulk == Init /\ [][NextBulk]_vars

\* addDrug and removeDrug calls of one caller whose store commands can fail
NextFail ==
  \/ \E d \in StepPool : CallAddDrug("c1", d)
  \/ \E n \in NDCs : CallRemoveDrug("c1", n)
  \/ StoreOpOk("c1")
  \/ \E written \in BOOLEAN : StoreOpFails("c1", written)
  \/ Return("c1")

SpecFail == Init /\ [][NextFail]_vars

\* two callers, each with one addDrug call, whose store commands interleave
NextRace ==
  \/ \E c \in Callers, d \in StepPool : CallAddDrug(c, d)
  \/ \E c \in Callers : StoreOpOk(c)

SpecRace == Init /\ [][NextRace]_vars

\* two callers whose addDrug and removeDrug calls interleave
NextRemoveRace ==
  \/ \E c \in Callers, d \in StepPool : CallAddDrug(c, d)
  \/ \E c \in Callers, n \in NDCs : CallRemoveDrug(c, n)
  \/ \E c \in Callers : StoreOpOk(c)
  \/ \E c \in Callers : Return(c)

SpecRemoveRace == Init /\ [][NextRemoveRace]_vars

\* two lock callers on one key: acquire, then release with the token
\* acquired, while time passes
NextLock ==
  \/ \E p \in LockCallers, timeout \in Timeouts, retries \in RetryCounts :
       CallAcquire(p, timeout, retries)
  \/ \E p \in LockCallers : AcquireSet(p)
  \/ \E p \in LockCallers : AcquireWake(p)
  \/ \E p \in LockCallers : CallRelease(p)
  \/ \E p \in LockCallers : ReleaseGet(p)
  \/ \E p \in LockCallers : ReleaseDel(p)
  \/ ClockTick

SpecLock == Init /\ [][NextLock]_vars

\* two counter callers whose incrementIfBelow calls interleave
NextCounter ==
  \/ \E q \in CounterCallers, max \in Maxes : CallIncrementIfBelow(q, max)
  \/ \E q \in CounterCallers : CounterGet(q)
  \/ \E q \in CounterCallers : CounterIncr(q)

SpecCounter == Init /\ [][NextCounter]_vars

\* sessions are created and users logged out while time passes
NextSession ==
  \/ \E u \in Users, ttl \in SessionTtls : create(u, ttl)
  \/ \E u \in Users : destroyAllForUser(u)
  \/ ClockTick

SpecSession == Init /\ [][NextSession]_vars

----------------------------------------------------------------------------
(* Properties *)

\* list `res` holds a record whose ndc is `ndc`
HasNdc(res, ndc) == \E i \in 1..Len(res) : res[i].ndc = ndc

\* list `res` holds the record `drug`
HasDrug(res, drug) == \E i \in 1..Len(res) : res[i] = drug

\* the last call wrote a record: addDrug, or updateDrug of a stored id
Upserted == lastOp.op \in {"addDrug", "updateDrug"} /\ lastOp.ret # "false"

\* C1: immediately after addDrug(record), every list getDrugsByTier(record.tier)
\* can return contains the item with id record.ndc.
C1_AddDrugListedInTier ==
  lastOp.op = "addDrug" =>
    \A res \in getDrugsByTier(lastOp.drug.tier) : HasNdc(res, lastOp.drug.ndc)

\* C1 witness: an addDrug that followed earlier calls, with both ids stored
C1_Witness ==
  /\ lastOp.op = "addDrug"
  /\ steps >= 2
  /\ DOMAIN drugs = NDCs
  /\ \A res \in getDrugsByTier(lastOp.drug.tier) : HasNdc(res, lastOp.drug.ndc)

\* C2: every id with a stored record is a member of exactly one tier set, the
\* set of the record's current tier.
C2_ExactlyOneTierSet ==
  \A n \in DOMAIN drugs :
    {t \in DOMAIN tierIdx : n \in tierIdx[t]} = {getDrug(n).tier}

\* C3: after addDrug/updateDrug of an item, its id is in the pa-required set
\* iff the written record has requiresPA, and in the step-therapy set iff it
\* has stepTherapy.
C3_FlagSetsMirrorFlags ==
  Upserted =>
    /\ lastOp.drug.ndc \in paIdx <=> lastOp.drug.requiresPA
    /\ lastOp.drug.ndc \in stIdx <=> lastOp.drug.stepTherapy

\* no record and no index membership exists for id n
Fresh(n) ==
  /\ ~Exists(n)
  /\ \A t \in DOMAIN tierIdx : n \notin tierIdx[t]
  /\ n \notin paIdx
  /\ n \notin stIdx
  /\ \A c \in DOMAIN classIdx : n \notin classIdx[c]
  /\ \A k \in DOMAIN searchIdx : n \notin searchIdx[k]

\* C4: on the first insert of an id (no record, no index membership), after
\* addDrug(record) every list getDrugsRequiringPA() can return contains the
\* item iff record.requiresPA.
C4_FirstInsertPA ==
  [][ (lastOp'.op = "addDrug" /\ Fresh(lastOp'.drug.ndc)) =>
        \A res \in getDrugsRequiringPA' :
          HasDrug(res, lastOp'.drug) <=> lastOp'.drug.requiresPA ]_vars

\* C4 witness: the first call of a run inserted an item with requiresPA, and
\* getDrugsRequiringPA() returns it
C4_Witness ==
  /\ lastOp.op = "addDrug"
  /\ steps = 1
  /\ lastOp.drug.requiresPA
  /\ \A res \in getDrugsRequiringPA : HasDrug(res, lastOp.drug)

\* C5: an upsert (addDrug, or updateDrug of a stored id) removes no id from
\* any tier, class or search-term set, and its id is a member of the sets of
\* the written record's tier, class and terms: membership only accretes.
C5_UpsertOnlyAccretes ==
  [][ lastOp'.op \in {"addDrug", "updateDrug"} =>
        /\ \A t \in DOMAIN tierIdx : tierIdx[t] \subseteq tierIdx'[t]
        /\ \A c \in DOMAIN classIdx : classIdx[c] \subseteq classIdx'[c]
        /\ \A k \in DOMAIN searchIdx : searchIdx[k] \subseteq searchIdx'[k]
        /\ lastOp'.ret # "false" =>
             LET d == lastOp'.drug
             IN  /\ d.ndc \in tierIdx'[d.tier]
                 /\ d.therapeuticClass # NoClass =>
                      d.ndc \in classIdx'[toLowerCase(d.therapeuticClass)]
                 /\ \A k \in IndexTerms(d) : d.ndc \in searchIdx'[k] ]_vars

\* C5 witness: after an updateDrug that changed tier, class or name the id is
\* in the old and the new tier set, class set and term sets
C5_Witness ==
  /\ lastOp.op = "updateDrug"
  /\ lastOp.ret = "true"
  /\ \/ \E t \in DOMAIN tierIdx : t # lastOp.drug.tier /\ lastOp.ndc \in tierIdx[t]
     \/ \E c \in DOMAIN classIdx :
          /\ lastOp.drug.therapeuticClass # NoClass
          /\ c # toLowerCase(lastOp.drug.therapeuticClass)
          /\ lastOp.ndc \in classIdx[c]

\* the queries searchDrugs is asked
Queries == Names \cup GenericNames

\* C6: query results reflect current field values: every record returned by
\* getDrugsByTier(t) has tier t, by getDrugsByClass(c) has class c ignoring
\* case, by getDrugsRequiringPA()/getDrugsWithStepTherapy() has the flag
\* true, and by searchDrugs(q) has every term of q among its own terms.
C6_ResultsReflectFields ==
  /\ \A t \in Tiers : \A res \in getDrugsByTier(t) :
       \A i \in 1..Len(res) : res[i].tier = t
  /\ \A c \in ClassLabels : \A res \in getDrugsByClass(c) :
       \A i \in 1..Len(res) : toLowerCase(res[i].therapeuticClass) = toLowerCase(c)
  /\ \A res \in getDrugsRequiringPA : \A i \in 1..Len(res) : res[i].requiresPA
  /\ \A res \in getDrugsWithStepTherapy : \A i \in 1..Len(res) : res[i].stepTherapy
  /\ \A q \in Queries : \A res \in searchDrugs(q, DefaultSearchLimit) :
       \A i \in 1..Len(res) : Range(QueryTerms(q)) \subseteq IndexTerms(res[i])

\* C7: after removeDrug(A) returns true, A is a member of no tier set, of
\* neither flag set and of no class set.
C7_RemovedFromIndexes ==
  (lastOp.op = "removeDrug" /\ lastOp.ret = "true") =>
    /\ \A t \in DOMAIN tierIdx : lastOp.ndc \notin tierIdx[t]
    /\ lastOp.ndc \notin paIdx
    /\ lastOp.ndc \notin stIdx
    /\ \A c \in DOMAIN classIdx : lastOp.ndc \notin classIdx[c]

\* C8: removeDrug leaves every search-term set unchanged, and the removed id
\* is still a member of the sets of the removed record's terms.
C8_RemoveKeepsSearchSets ==
  [][ lastOp'.op = "removeDrug" =>
        /\ searchIdx' = searchIdx
        /\ lastOp'.ret = "true" =>
             \A k \in IndexTerms(lastOp'.drug) : lastOp'.ndc \in searchIdx'[k] ]_vars

\* C8 witness: a removeDrug returned true and the removed id, which has no
\* record any more, is still in a search-term set
C8_Witness ==
  /\ lastOp.op = "removeDrug"
  /\ lastOp.ret = "true"
  /\ ~Exists(lastOp.ndc)
  /\ IndexTerms(lastOp.drug) # {}
  /\ \A k \in IndexTerms(lastOp.drug) : lastOp.ndc \in searchIdx[k]

\* C9: removeDrug and updateDrug on an id with no stored record return false
\* and leave the whole store unchanged.
C9_UnknownIdIsNoOp ==
  [][ (lastOp'.op \in {"removeDrug", "updateDrug"} /\ ~Exists(lastOp'.ndc)) =>
        /\ lastOp'.ret = "false"
        /\ storeVars' = storeVars ]_vars

\* C9 witness: a call on an unknown id returned false while the store holds
\* another record, its index entries and a rule, criteria or request
C9_Witness ==
  /\ lastOp.op \in {"removeDrug", "updateDrug"}
  /\ lastOp.ret = "false"
  /\ ~Exists(lastOp.ndc)
  /\ DOMAIN drugs # {}
  /\ DOMAIN stepRule \cup DOMAIN paCriteria \cup DOMAIN paRequest # {}

\* the limits searchDrugs is called with
SearchLimits == {1, DefaultSearchLimit}

\* C10 as stated: for every stored item, every list searchDrugs(name) can
\* return with the default limit contains the item.
C10_FullNameFindsItem ==
  \A n \in DOMAIN drugs :
    \A res \in searchDrugs(getDrug(n).name, DefaultSearchLimit) : HasDrug(res, getDrug(n))

\* C10 amended: for every stored item whose display name has a term of
\* length >= 3, and every limit that is not below the number of ids in all
\* the terms' sets, every list searchDrugs(name, limit) can return contains
\* the item.
C10_FullNameWithTermFindsItem ==
  \A n \in DOMAIN drugs : \A limit \in SearchLimits :
    LET terms == QueryTerms(getDrug(n).name)
    IN  (Len(terms) > 0 /\ Cardinality(SearchNdcs(terms)) <= limit) =>
          \A res \in searchDrugs(getDrug(n).name, limit) : HasDrug(res, getDrug(n))

\* C10 witness: a stored item with a two-term display name that another
\* stored item's terms match too, found by searching its display name
C10_Witness ==
  \E n \in DOMAIN drugs :
    LET terms == QueryTerms(getDrug(n).name)
    IN  /\ Len(terms) = 2
        /\ Cardinality(SearchNdcs(terms)) = 2
        /\ \A res \in searchDrugs(getDrug(n).name, DefaultSearchLimit) : HasDrug(res, getDrug(n))

----------------------------------------------------------------------------
(* Search by tokens *)

\* queries of one token: "Xyz", "wxyz", "Abc", and "wxy", a part of the
\* word "wxyz" that is no word of any name
TokenQueries ==
  { <<"X","y","z">>, <<"w","x","y","z">>, <<"A","b","c">>, <<"w","x","y">> }
SubstringQueries == { <<"w","x","y">> }

\* C11: searchDrugs matches whole tokens only: a one-token query returns an
\* item only if the lower-cased token is a whitespace-delimited word, of
\* length 3 or more, of a name or genericName the item was upserted with;
\* a token that is only a part of a name word returns nothing.
C11_WholeTokenMatch ==
  /\ \A q \in TokenQueries, l \in SearchLimits : \A res \in searchDrugs(q, l) :
       \A i \in 1..Len(res) : toLowerCase(q) \in upsertWords[res[i].ndc]
  /\ \A q \in SubstringQueries, l \in SearchLimits : searchDrugs(q, l) = {<<>>}

\* an item upserted with the name "wxyz" and never with the word "xyz" is
\* found by "wxyz", and neither by "Xyz" nor by "wxy"
C11_Witness ==
  /\ \E n \in DOMAIN drugs :
       /\ drugs[n].name = <<"w","x","y","z">>
       /\ <<"x","y","z">> \notin upsertWords[n]
       /\ \A res \in searchDrugs(<<"w","x","y","z">>, DefaultSearchLimit) : HasNdc(res, n)
  /\ searchDrugs(<<"X","y","z">>, DefaultSearchLimit) = {<<>>}
  /\ searchDrugs(<<"w","x","y">>, DefaultSearchLimit) = {<<>>}

\* queries of several tokens, each with its qualifying tokens:
\* "Abc  Xyz", "xyz Wxyz", and "ab Abc xyz" whose first word is too short
MultiTokenQueries ==
  { [query |-> <<"A","b","c"," "," ","X","y","z">>,
     tokens |-> {<<"a","b","c">>, <<"x","y","z">>}],
    [query |-> <<"x","y","z"," ","W","x","y","z">>,
     tokens |-> {<<"x","y","z">>, <<"w","x","y","z">>}],
    [query |-> <<"a","b"," ","A","b","c"," ","x","y","z">>,
     tokens |-> {<<"a","b","c">>, <<"x","y","z">>}] }

\* the ids that are members of the search set of every token
InAllSearchSets(tokens) == {n \in NDCs : \A t \in tokens : n \in SMembers(searchIdx, t)}

\* C12: for a query of two or more qualifying tokens, the ids searchDrugs
\* resolves are exactly the intersection of the tokens' search sets, taken
\* before the limit is applied; so the id of every returned item is a
\* member of the search set of every token of the query.
C12_MultiTokenIntersection ==
  \A q \in MultiTokenQueries, l \in SearchLimits :
    /\ searchDrugs(q.query, l) = {Fetch(Slice(o, l)) : o \in Orders(InAllSearchSets(q.tokens))}
    /\ \A res \in searchDrugs(q.query, l) : \A i \in 1..Len(res) :
         \A t \in q.tokens : res[i].ndc \in SMembers(searchIdx, t)

\* two stored items in the set of "abc", one of them in the set of "xyz"
\* too: "Abc  Xyz" returns that one alone
C12_Witness ==
  \E n \in DOMAIN drugs, m \in DOMAIN drugs :
    /\ n # m
    /\ {n, m} \subseteq searchIdx[<<"a","b","c">>]
    /\ n \in searchIdx[<<"x","y","z">>] /\ m \notin searchIdx[<<"x","y","z">>]
    /\ searchDrugs(<<"A","b","c"," "," ","X","y","z">>, DefaultSearchLimit) = {<<drugs[n]>>}

----------------------------------------------------------------------------
(* Filters *)

\* the options that leave `field` out or give it one of `values`
Opt(field, values) == {NoArg} \cup {[f \in {field} |-> v] : v \in values}

\* the FormularySearchOptions drawn: no field, one field, and some
\* combinations; a flag is present with either value, the class as "ST" or
\* as "", the limit as 0 or 1
SearchOptions ==
  Opt("tier", Tiers) \cup Opt("requiresPA", BOOLEAN) \cup Opt("stepTherapy", BOOLEAN)
  \cup Opt("therapeuticClass", {<<"S","T">>, NoClass}) \cup Opt("limit", {0, 1})
  \cup {t @@ p : t \in Opt("tier", Tiers), p \in Opt("requiresPA", BOOLEAN)}
  \cup {[tier |-> t, limit |-> l] : t \in Tiers, l \in {0, 1}}
  \cup {[requiresPA |-> TRUE, stepTherapy |-> b] : b \in BOOLEAN}
  \cup {[tier |-> t, requiresPA |-> TRUE, stepTherapy |-> TRUE,
         therapeuticClass |-> <<"S","T">>] : t \in Tiers}

ClassQueries == { <<"S","t">>, <<"s","t">>, <<"S","T">>, <<"b","x">>, <<"B","x">> }

\* every list a search or filter operation can return in this state
AllResults ==
  UNION {searchDrugs(q, l) : q \in Queries \cup TokenQueries, l \in SearchLimits}
  \cup UNION {getDrugsByTier(t) : t \in Tiers}
  \cup getDrugsRequiringPA \cup getDrugsWithStepTherapy
  \cup UNION {getDrugsByClass(c) : c \in ClassQueries}
  \cup UNION {advancedSearch(o) : o \in SearchOptions}

\* C13: the search and filter operations never return a deleted item: each
\* record returned by searchDrugs, getDrugsByTier, getDrugsRequiringPA,
\* getDrugsWithStepTherapy, getDrugsByClass or advancedSearch is the record
\* now stored under its id; an id without a record is dropped from the
\* result even while an index set still holds it.
C13_NoDeletedItemReturned ==
  \A res \in AllResults : \A i \in 1..Len(res) :
    Exists(res[i].ndc) /\ res[i] = getDrug(res[i].ndc)

\* a removed id is still in the set of "abc" and in a tier set, and no
\* search by "Abc", by that tier, or by that tier as a filter returns it
C13_Witness ==
  \E n \in NDCs \ DOMAIN drugs, t \in Tiers :
    /\ n \in searchIdx[<<"a","b","c">>] /\ n \in tierIdx[t]
    /\ \A res \in searchDrugs(<<"A","b","c">>, DefaultSearchLimit) \cup getDrugsByTier(t)
                   \cup advancedSearch([tier |-> t]) : ~HasNdc(res, n)

\* queries without a token of length 3 or more: "", " ", "ab", "a  de", "AB de "
ShortQueries ==
  { <<>>, <<" ">>, <<"a","b">>, <<"a"," "," ","d","e">>, <<"A","B"," ","d","e"," ">> }

\* C14: searchDrugs("") and searchDrugs(q) for a q whose tokens are all
\* shorter than 3 characters return the empty list in every catalog state.
C14_ShortQueryFindsNothing ==
  \A q \in ShortQueries, l \in SearchLimits : searchDrugs(q, l) = {<<>>}

\* an item named "ab" is stored and indexed under the word of its
\* genericName, and the queries "ab" and "" return the empty list
C14_Witness ==
  /\ \E n \in DOMAIN drugs :
       /\ drugs[n].name = <<"a","b">>
       /\ \E t \in DOMAIN searchIdx : n \in searchIdx[t]
  /\ searchDrugs(<<"a","b">>, DefaultSearchLimit) = {<<>>}
  /\ searchDrugs(<<>>, DefaultSearchLimit) = {<<>>}

\* the id is in the index set of every predicate present in the options
InPresentSets(n, o) ==
  /\ Has(o, "tier") => n \in SMembers(tierIdx, o.tier)
  /\ Has(o, "requiresPA") => n \in paIdx
  /\ Has(o, "stepTherapy") => n \in stIdx
  /\ Has(o, "therapeuticClass") => n \in SMembers(classIdx, toLowerCase(o.therapeuticClass))

\* a predicate is in effect: the tier when present, a flag when present
\* with value true, the class when present and not the empty string
InEffect(o, field) ==
  /\ Has(o, field)
  /\ field \in {"requiresPA", "stepTherapy"} => o[field]
  /\ field = "therapeuticClass" => o[field] # NoClass

Predicates == {"tier", "requiresPA", "stepTherapy", "therapeuticClass"}

\* the id is in the index set of every predicate in effect
InEffectiveSets(n, o) ==
  /\ InEffect(o, "tier") => n \in SMembers(tierIdx, o.tier)
  /\ InEffect(o, "requiresPA") => n \in paIdx
  /\ InEffect(o, "stepTherapy") => n \in stIdx
  /\ InEffect(o, "therapeuticClass") => n \in SMembers(classIdx, toLowerCase(o.therapeuticClass))

\* the limit in effect: the limit given, 100 when it is absent or 0
EffectiveLimit(o) == IF Has(o, "limit") /\ o.limit > 0 THEN o.limit ELSE 100

\* C15 as stated: advancedSearch contributes one index set for each
\* predicate present and returns at most `limit` (default 100) stored
\* records of the ids in the intersection; so the id of every returned
\* record is in the index set of every present predicate.
C15_InEveryPresentSet ==
  \A o \in SearchOptions : \A res \in advancedSearch(o) :
    /\ Len(res) <= (IF Has(o, "limit") THEN o.limit ELSE 100)
    /\ \A i \in 1..Len(res) : InPresentSets(res[i].ndc, o)

\* C15, amended: advancedSearch contributes one index set for each
\* predicate in effect (the tier when present, a flag only when present
\* with value true, the class only when present and not empty); with at
\* least one such predicate it returns the stored records of the ids in the
\* intersection of the contributed sets, at most `limit` of them (100 when
\* the limit is absent or 0); so the id of every returned record is in the
\* index set of every predicate in effect.
C15_InEveryEffectiveSet ==
  \A o \in SearchOptions :
    (\E f \in Predicates : InEffect(o, f)) =>
      /\ advancedSearch(o) =
           {Fetch(Slice(ord, EffectiveLimit(o))) :
              ord \in Orders({n \in NDCs : InEffectiveSets(n, o)})}
      /\ \A res \in advancedSearch(o) :
           /\ Len(res) <= EffectiveLimit(o)
           /\ \A i \in 1..Len(res) : InEffectiveSets(res[i].ndc, o)

\* two stored items of one tier, one of them in pa-required: the filter by
\* that tier and requiresPA true returns that one alone, and the filter
\* by that tier with limit 1 returns one record
C15_Witness ==
  \E n \in DOMAIN drugs, m \in DOMAIN drugs, t \in Tiers :
    /\ n # m /\ {n, m} \subseteq tierIdx[t]
    /\ n \in paIdx /\ m \notin paIdx
    /\ advancedSearch([tier |-> t, requiresPA |-> TRUE]) = {<<drugs[n]>>}
    /\ \A res \in advancedSearch([tier |-> t, limit |-> 1]) : Len(res) = 1

\* the options without a predicate: {} and those that give a limit alone
NoPredicateOptions == {o \in SearchOptions : DOMAIN o \subseteq {"limit"}}

\* C16: advancedSearch({}), with no predicate, returns the empty list in
\* every catalog state.
C16_NoPredicateFindsNothing ==
  \A o \in NoPredicateOptions : advancedSearch(o) = {<<>>}

\* two items are stored, in tier sets and in the class set, and
\* advancedSearch({}) returns the empty list
C16_Witness ==
  /\ Cardinality(DOMAIN drugs) = 2
  /\ \A n \in DOMAIN drugs : \E t \in Tiers : n \in tierIdx[t]
  /\ \E c \in DOMAIN classIdx : classIdx[c] = DOMAIN drugs
  /\ advancedSearch(NoArg) = {<<>>}

\* the labels of ClassQueries that equal label c when case is ignored
SameIgnoringCase(c) == {l \in ClassQueries : toLowerCase(l) = toLowerCase(c)}

\* C17: class indexing is case-insensitive: an item upserted with
\* therapeuticClass C is a member of the class set keyed by lower-case(C),
\* and getDrugsByClass(L) returns it for every L equal to C when case is
\* ignored; an item upserted with no class is added to no class set.
C17_ClassIgnoresCase ==
  /\ [](\A n \in DOMAIN drugs :
          LET c == drugs[n].therapeuticClass
          IN  c # NoClass =>
                /\ n \in SMembers(classIdx, toLowerCase(c))
                /\ \A l \in SameIgnoringCase(c) : \A res \in getDrugsByClass(l) :
                     HasDrug(res, drugs[n]))
  /\ [][(Upserted' /\ lastOp'.drug.therapeuticClass = NoClass) => classIdx' = classIdx]_vars

\* an item stored with class "St" is in the set keyed "st" and is returned
\* for "ST", "st" and "St", and not for "bx"
C17_Witness ==
  \E n \in DOMAIN drugs :
    /\ drugs[n].therapeuticClass = <<"S","t">>
    /\ n \in classIdx[<<"s","t">>]
    /\ \A l \in {<<"S","T">>, <<"s","t">>, <<"S","t">>} :
         \A res \in getDrugsByClass(l) : HasDrug(res, drugs[n])
    /\ \A res \in getDrugsByClass(<<"b","x">>) : ~HasDrug(res, drugs[n])

----------------------------------------------------------------------------
(* Step therapy and prior authorization workflows *)

\* patient histories: [], ["A"], ["B"], ["A","B"], ["B","B"]
Histories == { <<>>, <<"A">>, <<"B">>, <<"A","B">>, <<"B","B">> }

\* the entries of list `required` that are not in list `history`, in the
\* order of `required`
RECURSIVE NotIn(_, _)
NotIn(required, history) ==
  IF required = <<>> THEN <<>>
  ELSE IF \E i \in 1..Len(history) : history[i] = Head(required)
       THEN NotIn(Tail(required), history)
       ELSE <<Head(required)>> \o NotIn(Tail(required), history)

\* C18: checkStepTherapyCompliance(item, history) returns as missingDrugs
\* the requiredDrugs of the item's rule that are not in history, in rule
\* order (none when the item has no rule), and compliant = true exactly
\* when missingDrugs is empty; with a rule requiring the one drug P, the
\* history [] gives {compliant: false, missingDrugs: [P]} and the history
\* [P] gives {compliant: true, missingDrugs: []}.
C18_ComplianceIsMissingNone ==
  \A n \in NDCs, h \in Histories :
    LET r == checkStepTherapyCompliance(n, h)
    IN  /\ r.compliant <=> (r.missingDrugs = <<>>)
        /\ r.missingDrugs = IF n \in DOMAIN stepRule THEN NotIn(stepRule[n].requiredDrugs, h)
                                                     ELSE <<>>
        /\ \A p \in NDCs :
             (n \in DOMAIN stepRule /\ stepRule[n].requiredDrugs = <<p>>) =>
               /\ checkStepTherapyCompliance(n, <<>>) = [compliant |-> FALSE, missingDrugs |-> <<p>>]
               /\ checkStepTherapyCompliance(n, <<p>>) = [compliant |-> TRUE, missingDrugs |-> <<>>]

\* one item has a rule requiring "B" then "A", the other has no rule: the
\* history ["A"] misses "B", the history [] misses "B" then "A", and the
\* item without a rule complies
C18_Witness ==
  \E n \in DOMAIN stepRule, m \in NDCs \ DOMAIN stepRule :
    /\ stepRule[n].requiredDrugs = <<"B", "A">>
    /\ checkStepTherapyCompliance(n, <<"A">>) = [compliant |-> FALSE, missingDrugs |-> <<"B">>]
    /\ checkStepTherapyCompliance(n, <<>>).missingDrugs = <<"B", "A">>
    /\ checkStepTherapyCompliance(n, <<"A", "B">>).compliant
    /\ checkStepTherapyCompliance(m, <<>>) = [compliant |-> TRUE, missingDrugs |-> <<>>]

\* C19: step-therapy rules and PA criteria are last-write-wins per item
\* id: getStepTherapyRule(id) / getPACriteria(id) return the value most
\* recently set for that id, or absent if none was set; a set for one id
\* never changes the value of another id, and the values never expire.
C19_LastWriteWins ==
  /\ [](steps = 0 => \A n \in NDCs : getStepTherapyRule(n) = Null /\ getPACriteria(n) = Null)
  /\ [][\A n \in NDCs :
          /\ getStepTherapyRule(n)' =
               IF lastOp'.op = "addStepTherapyRule" /\ lastOp'.arg.drugNDC = n
               THEN lastOp'.arg ELSE getStepTherapyRule(n)
          /\ getPACriteria(n)' =
               IF lastOp'.op = "addPACriteria" /\ lastOp'.arg.drugNDC = n
               THEN lastOp'.arg ELSE getPACriteria(n)]_vars

\* a rule was set for one id, 29 days or more passed, and a rule was set
\* for the other id: both are returned, the latter as just set
C19_Witness ==
  /\ lastOp.op = "addStepTherapyRule"
  /\ now >= PARequestTtlDays - 1
  /\ \A n \in NDCs : getStepTherapyRule(n) # Null
  /\ getStepTherapyRule(lastOp.ndc) = lastOp.arg

C21_ResubmitOverwrites ==
  [][lastOp'.op = "submitPARequest" =>
       LET a == lastOp'.arg
       IN  /\ lastOp'.ret = "void"
           /\ \A r \in RequestIds : r = a.requestId =>
                /\ getPAStatus(r)' =
                     [requestId |-> r, drugNDC |-> a.drugNDC, patientId |-> a.patientId,
                      prescriberId |-> a.prescriberId, status |-> "pending",
                      submittedAt |-> now']
                /\ paRequest'[r].expiresAt = now' + 30]_vars

\* a request id submitted for one patient was submitted again, 29 days
\* later, for the other patient: the stored request is the later one and
\* its window ends 30 days after the later submission
C21_Witness ==
  /\ lastOp.op = "submitPARequest"
  /\ now = 29
  /\ submitters[lastOp.arg.requestId] = Patients
  /\ getPAStatus(lastOp.arg.requestId).patientId = lastOp.arg.patientId
  /\ getPAStatus(lastOp.arg.requestId).submittedAt = 29
  /\ paRequest[lastOp.arg.requestId].expiresAt = 59

\* the request ids in the index set of patient p
PatientRequests(p) == IF p \in DOMAIN patientIdx THEN patientIdx[p] ELSE {}

----------------------------------------------------------------------------
(* Statistics and export *)

\* C24: the total item count reported by getFormularyStats() (totalDrugs,
\* the sum of the cardinalities of the tier 1..5 sets) equals the number of
\* item records stored, after any sequence of completed addDrug /
\* updateDrug / removeDrug calls.
C24_TotalIsRecordCount ==
  getFormularyStats.totalDrugs = Cardinality(DOMAIN drugs)

\* C25: exportFormulary() is a full catalog dump: its result contains every
\* stored item record exactly once.
C25_ExportHoldsEachOnce ==
  \A res \in exportFormulary : \A n \in DOMAIN drugs :
    Cardinality({i \in 1..Len(res) : res[i] = drugs[n]}) = 1

----------------------------------------------------------------------------
(* Bulk import, partial failure and concurrent upserts *)

\* how many entries of list `q` equal `v`
Count(q, v) == Cardinality({i \in 1..Len(q) : q[i] = v})

\* C23: bulkImportDrugs(records) attempts addDrug for every record in
\* order; a failure of one record's addDrug is counted and does not keep
\* the later records from being upserted; the returned counts satisfy
\* success + failed = number of records, with success the number of
\* addDrug calls that completed.
C23_BulkImportCountsAll ==
  LET call == calls["c1"]
      records == call.arg
      ended == Len(call.outcomes)
  IN  call.op = "bulkImportDrugs" =>
        /\ call.status = "running" =>
             call.queue = SubSeq(records, ended + 2, Len(records))
        /\ call.status = "returned" =>
             /\ ended = Len(records)
             /\ call.success + call.failed = Len(records)
             /\ call.success = Count(call.outcomes, "ok")
        /\ \A i \in 1..ended :
             call.outcomes[i] = "ok" =>
               Exists(records[i].ndc) /\ records[i].ndc \in tierIdx[records[i].tier]

\* an import of two records has returned 1 success and 1 failure: the
\* addDrug of the first record failed and the second record is stored
C23_Witness ==
  LET call == calls["c1"]
  IN  /\ call.op = "bulkImportDrugs" /\ call.status = "returned"
      /\ call.outcomes = <<"failed", "ok">>
      /\ call.success = 1 /\ call.failed = 1
      /\ getDrug(call.arg[2].ndc) = call.arg[2]

\* C26: in the list returned by exportFormulary(), items appear grouped by
\* tier ascending: for any two positions i < j the tier of the record at i
\* is less than or equal to the tier of the record at j.  (Stated for the
\* states in which no store command has failed.)
C26_ExportAscendingTiers ==
  (calls["c1"].status \in {"idle", "returned"} /\ calls["c1"].failed = 0) =>
    \A res \in exportFormulary : \A i \in 1..Len(res), j \in 1..Len(res) :
      i < j => res[i].tier <= res[j].tier

\* the id is a member of every index set addDrug derives from the record
InIndexSetsOf(drug) ==
  /\ drug.ndc \in tierIdx[drug.tier]
  /\ \A t \in IndexTerms(drug) : drug.ndc \in searchIdx[t]
  /\ drug.requiresPA => drug.ndc \in paIdx
  /\ drug.stepTherapy => drug.ndc \in stIdx
  /\ drug.therapeuticClass # NoClass => drug.ndc \in classIdx[toLowerCase(drug.therapeuticClass)]

\* both callers called addDrug for the same id with different fields
SameIdRace ==
  /\ \A c \in Callers : calls[c].op = "addDrug"
  /\ calls["c1"].arg.ndc = calls["c2"].arg.ndc
  /\ calls["c1"].arg # calls["c2"].arg

\* C27: two concurrent addDrug calls for the same id with different fields
\* interleave one store command at a time: every command a call has run is
\* in effect whatever the other call has done, so while the calls run the
\* stored record is the one of a caller that has written it and the id is
\* in every index set either caller has added it to; once both calls have
\* returned the stored record holds one caller's fields and the id is a
\* member of the index sets (tier, class, flags, tokens) derived from both
\* callers' fields.
C27_RecordOfOneIndexesOfBoth ==
  SameIdRace =>
    LET id == calls["c1"].arg.ndc
        wrote == {c \in Callers : calls[c].applied # <<>>}
    IN  /\ Exists(id) <=> wrote # {}
        /\ Exists(id) => \E c \in wrote : getDrug(id) = calls[c].arg
        /\ \A c \in Callers : \A i \in 1..Len(calls[c].applied) :
              LET op == calls[c].applied[i]
              IN  /\ op.set = "tier" => id \in tierIdx[op.key]
                  /\ op.set = "search" => id \in searchIdx[op.key]
                  /\ op.set = "pa" => id \in paIdx
                  /\ op.set = "st" => id \in stIdx
                  /\ op.set = "class" => id \in classIdx[op.key]
        /\ (\A c \in Callers : calls[c].status = "returned") =>
              \A c \in Callers : InIndexSetsOf(calls[c].arg)

\* both calls have returned, each ran a command between two commands of the
\* other, the record is the first caller's and the index sets hold the id
\* for both records
C27_Witness ==
  /\ SameIdRace
  /\ \A c \in Callers : calls[c].status = "returned" /\ calls[c].raced
  /\ getDrug(calls["c1"].arg.ndc) = calls["c1"].arg
  /\ calls["c1"].arg.tier # calls["c2"].arg.tier
  /\ \A c \in Callers : InIndexSetsOf(calls[c].arg)

\* the store command is in effect: what it wrote is there, what it removed
\* is not
InEffectOp(op) ==
  /\ op.cmd = "SET" => Exists(op.ndc) /\ getDrug(op.ndc) = op.drug
  /\ op.cmd = "DEL" => ~Exists(op.ndc)
  /\ op.set = "tier" => (op.cmd = "SADD" <=> op.ndc \in tierIdx[op.key])
  /\ op.set = "search" => op.ndc \in searchIdx[op.key]
  /\ op.set = "pa" => (op.cmd = "SADD" <=> op.ndc \in paIdx)
  /\ op.set = "st" => (op.cmd = "SADD" <=> op.ndc \in stIdx)
  /\ op.set = "class" => (op.cmd = "SADD" <=> op.ndc \in classIdx[op.key])

\* C28: if a store call fails partway through addDrug or removeDrug, the
\* operation raises to the caller and every store write it already applied
\* stays applied: nothing is rolled back.  A call whose command failed has
\* raised, and a call that has raised left every command it ran in effect;
\* a call that returned ran all its commands.
C28_FailureRaisesNoRollback ==
  LET call == calls["c1"]
  IN  call.op \in {"addDrug", "removeDrug"} =>
        /\ call.status = "raised" =>
              /\ call.ret = "raised"
              /\ \A i \in 1..Len(call.applied) : InEffectOp(call.applied[i])
              /\ call.op = "addDrug" => Len(call.applied) <= Len(AddDrugOps(call.arg))
        /\ (call.status = "returned" /\ call.op = "addDrug") =>
              call.applied = AddDrugOps(call.arg)
        /\ (call.status = "returned" /\ call.ret = "true") =>
              \A i \in 1..Len(call.applied) : InEffectOp(call.applied[i])

\* removeDrug raised after it deleted the record: the id is still in its
\* tier, flag and class sets
C28_Witness ==
  LET call == calls["c1"]
  IN  /\ call.op = "removeDrug" /\ call.status = "raised"
      /\ Len(call.applied) = 1 /\ call.applied[1].cmd = "DEL"
      /\ ~Exists(call.arg)
      /\ call.arg \in tierIdx[1] /\ call.arg \in paIdx /\ call.arg \in classIdx[<<"s","t">>]

\* addDrug raised after it wrote the record: the id is absent from its
\* tier set
C28_AddDrugResting ==
  LET call == calls["c1"]
  IN  /\ call.op = "addDrug" /\ call.status = "raised"
      /\ getDrug(call.arg.ndc) = call.arg
      /\ call.arg.ndc \notin tierIdx[call.arg.tier]

\* the step in which the acquire call of p returns its token
Granted(p) == lockCalls[p].pc = "set" /\ lockCalls'[p].ret = "token"

\* C29: LockController mutual exclusion.  Under every interleaving of
\* acquire calls on a key (with releases and the passing of time), an
\* acquire call returns a token only in a SET NX step before which the key
\* held no unexpired lock, and the key then holds that token until the
\* timeout; hence no call returns a token while the key holds an unexpired
\* lock, and at most one returned token is the one of the unexpired lock.
\* A call returns null after retries + 1 failed attempts, and a token after
\* at most retries + 1 attempts.
C29_MutualExclusion ==
  /\ [](/\ Cardinality({p \in LockCallers : /\ lockCalls[p].op = "acquire"
                                             /\ lockCalls[p].ret = "token"
                                             /\ LockGet = lockCalls[p].token}) <= 1
        /\ \A p \in LockCallers :
             /\ lockCalls[p].ret = "null" => lockCalls[p].tried = lockCalls[p].retries + 1
             /\ lockCalls[p].ret = "token" => lockCalls[p].tried <= lockCalls[p].retries + 1)
  /\ [][\A p \in LockCallers :
          /\ Granted(p) =>
                /\ ~Live
                /\ lockStore' = [token |-> lockCalls'[p].token,
                                 expiresAt |-> clock + lockCalls[p].timeout]
          /\ (Live /\ Live') => lockStore'.token = lockStore.token]_vars

\* one caller's acquire returned the token of the unexpired lock, and the
\* other's, made meanwhile with one retry, returned null after two attempts
C29_Witness ==
  /\ lockCalls["p1"].op = "acquire" /\ lockCalls["p1"].ret = "token"
  /\ Live /\ lockStore.token = lockCalls["p1"].token
  /\ lockCalls["p2"].op = "acquire" /\ lockCalls["p2"].ret = "null"
  /\ lockCalls["p2"].retries = 1 /\ lockCalls["p2"].tried = 2

\* C30: only the lock holder can release: release(key, token) deletes the
\* lock on the key only if the lock currently stored belongs to token, and
\* never deletes a lock that another caller holds.
C30_OnlyHolderReleases ==
  \A p \in LockCallers :
    lockCalls[p].deleted # NoToken => lockCalls[p].deleted = lockCalls[p].token

\* C31: incrementIfBelow(key, max) never lets the counter exceed max: for a
\* counter that starts below max and is changed only through
\* incrementIfBelow(key, max), the stored value is at most max in every
\* reachable state, also when several callers invoke it concurrently.
C31_NeverAboveMax ==
  \A max \in Maxes : counterLog = {max} => counterStore <= max

\* C32: destroyAllForUser(u) logs the user out from all devices: after it
\* completes, get(s) returns null for every session s that was created for
\* user u, whatever TTLs the user's sessions were created with.
C32_LoggedOutEverywhere ==
  lastOp.op = "destroyAllForUser" =>
    \A s \in DOMAIN created : created[s].userId = lastOp.arg => sessionGet(s) = Null

\* C33: an item's id is immutable: for every updateDrug(id, updates),
\* including updates that carry a different ndc value, the only record
\* written is the one stored under id, its ndc field stays equal to id, and
\* no record under any other id is created or modified.
C33_IdIsImmutable ==
  [][\A id \in NDCs :
       (lastOp'.op = "updateDrug" /\ lastOp'.ndc = id /\ lastOp'.ret = "true") =>
         /\ id \in DOMAIN drugs' /\ drugs'[id].ndc = id
         /\ \A other \in NDCs \ {id} :
              /\ other \in DOMAIN drugs' <=> other \in DOMAIN drugs
              /\ other \in DOMAIN drugs => drugs'[other] = drugs[other]]_vars

\* the step is a completed call of one of the named operations
CallOf(ops) == steps' # steps /\ calls' = calls /\ lastOp'.op \in ops

\* C34: the catalog and the two workflows are independent.  addDrug,
\* updateDrug, removeDrug and every store command of bulkImportDrugs leave
\* every rule, criteria, request and patient index unchanged;
\* addStepTherapyRule, addPACriteria and submitPARequest store their value
\* whether or not the item id has a record, and leave every record and
\* index set unchanged; a rule survives removeDrug of its item and
\* checkStepTherapyCompliance evaluates it as before.
C34_CatalogAndWorkflowsIndependent ==
  [][/\ CallOf({"addDrug", "updateDrug", "removeDrug"}) => UNCHANGED workflowVars
     /\ calls' # calls => UNCHANGED workflowVars
     /\ CallOf({"addStepTherapyRule", "addPACriteria", "submitPARequest"}) =>
           /\ UNCHANGED catalogVars
           /\ \A n \in NDCs : lastOp'.ndc = n =>
                /\ lastOp'.op = "addStepTherapyRule" => getStepTherapyRule(n)' = lastOp'.arg
                /\ lastOp'.op = "addPACriteria" => getPACriteria(n)' = lastOp'.arg
           /\ \A r \in RequestIds :
                (lastOp'.op = "submitPARequest" /\ lastOp'.arg.requestId = r) =>
                  getPAStatus(r)' # Null /\ getPAStatus(r)'.drugNDC = lastOp'.ndc
     /\ CallOf({"removeDrug"}) =>
           \A n \in NDCs :
             /\ getStepTherapyRule(n)' = getStepTherapyRule(n)
             /\ \A h \in Histories :
                  checkStepTherapyCompliance(n, h)' = checkStepTherapyCompliance(n, h)]_vars

\* the item of a rule was removed: the rule is still stored and the empty
\* history does not comply with it
C34_Witness ==
  /\ lastOp.op = "removeDrug" /\ lastOp.ret = "true"
  /\ ~Exists(lastOp.ndc)
  /\ getStepTherapyRule(lastOp.ndc) # Null
  /\ ~checkStepTherapyCompliance(lastOp.ndc, <<>>).compliant

\* C35: index completeness under sequential use: whenever no call is in
\* progress, after any sequence of completed addDrug, updateDrug, removeDrug
\* and (non-failing) bulkImportDrugs calls, every stored record r is stored
\* under r.ndc and has r.ndc in the tier set of r.tier, in the pa-required
\* set if r.requiresPA, in the step-therapy set if r.stepTherapy, in the
\* class set of its lower-cased class if it has one, and in the search set
\* of every token of length 3 or more of its name and genericName.
C35_IndexesComplete ==
  calls["c1"].status # "running" =>
    \A n \in DOMAIN drugs : drugs[n].ndc = n /\ InIndexSetsOf(drugs[n])

\* a bulk import of two records has completed and one of them was removed
\* since: the other is stored with its flag, class and token memberships
C35_Witness ==
  /\ calls["c1"].status = "returned" /\ calls["c1"].success = 2
  /\ lastOp.op = "removeDrug" /\ lastOp.ret = "true"
  /\ \E n \in DOMAIN drugs :
       /\ drugs[n].requiresPA /\ n \in paIdx
       /\ drugs[n].therapeuticClass # NoClass
       /\ IndexTerms(drugs[n]) # {}
       /\ InIndexSetsOf(drugs[n])

\* the step in which the call of c runs the command it awaits
Runs(c) == calls[c].status = "running" /\ Len(calls'[c].applied) > Len(calls[c].applied)

\* C36: removeDrug computes its SREM calls from the record it read and runs
\* them whatever an addDrug for the same id does meanwhile: the commands of
\* a removeDrug that found a record are fixed when getDrug returns and no
\* step of another caller changes them; each SREM takes the id out of its
\* set and leaves the records alone; a removeDrug that returned true has
\* run DEL and the SREMs on the tier, pa-required and step-therapy sets.
\* So a removeDrug(id) concurrent with an addDrug of id can end, both calls
\* completed, with the record stored and id missing from its sets.
C36_RemoveRunsItsSrems ==
  /\ [](\A c \in Callers :
          (calls[c].op = "removeDrug" /\ calls[c].ret = "true") =>
            /\ calls[c].applied[1].cmd = "DEL"
            /\ \A set \in {"tier", "pa", "st"} :
                 \E i \in 2..Len(calls[c].applied) :
                   calls[c].applied[i].cmd = "SREM" /\ calls[c].applied[i].set = set)
  /\ [][\A c \in Callers :
          /\ (calls[c].op = "removeDrug" /\ calls[c].status = "running"
                /\ Head(calls[c].todo).cmd = "GET" /\ calls'[c] # calls[c]
                /\ Exists(calls[c].arg)) =>
                calls'[c].todo = RemoveDrugOps(calls[c].arg, getDrug(calls[c].arg))
          /\ \A o \in Callers \ {c} : calls'[o] # calls[o] => calls'[c] = calls[c]
          /\ (calls[c].op = "removeDrug" /\ Runs(c) /\ Head(calls[c].todo).cmd = "SREM") =>
                LET op == Head(calls[c].todo)
                IN  /\ drugs' = drugs
                    /\ op.set = "tier" => op.ndc \notin tierIdx'[op.key]
                    /\ op.set = "pa" => op.ndc \notin paIdx'
                    /\ op.set = "st" => op.ndc \notin stIdx'
                    /\ op.set = "class" => op.ndc \notin classIdx'[op.key]]_vars

\* removeDrug and addDrug of the same id have both completed, each ran a
\* command between two commands of the other, and the record is stored
\* while its id is in neither its tier set, nor the pa-required set, nor
\* its class set
C36_Witness ==
  /\ calls["c1"].op = "removeDrug" /\ calls["c1"].ret = "true" /\ calls["c1"].raced
  /\ calls["c2"].op = "addDrug" /\ calls["c2"].status = "returned" /\ calls["c2"].raced
  /\ calls["c2"].arg.ndc = calls["c1"].arg
  /\ Exists(calls["c1"].arg)
  /\ getDrug(calls["c1"].arg) = calls["c2"].arg
  /\ calls["c2"].arg.requiresPA /\ calls["c2"].arg.therapeuticClass # NoClass
  /\ calls["c1"].arg \notin tierIdx[calls["c2"].arg.tier]
  /\ calls["c1"].arg \notin paIdx
  /\ calls["c1"].arg \notin classIdx[toLowerCase(calls["c2"].arg.therapeuticClass)]

\* the records and index sets, as one value
CatalogState ==
  [drugs |-> drugs, tierIdx |-> tierIdx, paIdx |-> paIdx, stIdx |-> stIdx,
   classIdx |-> classIdx, searchIdx |-> searchIdx]

\* the catalog with no key
EmptyCatalog ==
  [drugs |-> [n \in {} |-> n], tierIdx |-> [t \in Tiers |-> {}], paIdx |-> {}, stIdx |-> {},
   classIdx |-> [c \in ClassKeys |-> {}], searchIdx |-> [t \in AllTerms |-> {}]]

\* catalog S once the store has run the command
AfterOp(S, op) ==
  IF op.set = "drug"
  THEN [S EXCEPT !.drugs = IF op.cmd = "SET" THEN Put(@, op.ndc, op.drug) ELSE Del(@, op.ndc)]
  ELSE IF op.set = "tier"
  THEN [S EXCEPT !.tierIdx = IF op.cmd = "SADD" THEN SAdd(@, op.key, op.ndc)
                                                ELSE SRem(@, op.key, op.ndc)]
  ELSE IF op.set = "search" THEN [S EXCEPT !.searchIdx = SAdd(@, op.key, op.ndc)]
  ELSE IF op.set = "pa"
  THEN [S EXCEPT !.paIdx = IF op.cmd = "SADD" THEN @ \cup {op.ndc} ELSE @ \ {op.ndc}]
  ELSE IF op.set = "st"
  THEN [S EXCEPT !.stIdx = IF op.cmd = "SADD" THEN @ \cup {op.ndc} ELSE @ \ {op.ndc}]
  ELSE [S EXCEPT !.classIdx = IF op.cmd = "SADD" THEN SAdd(@, op.key, op.ndc)
                                                 ELSE SRem(@, op.key, op.ndc)]

\* catalog S once the store has run the commands, one after the other
RECURSIVE AfterOps(_, _)
AfterOps(S, ops) ==
  IF ops = <<>> THEN S ELSE AfterOps(AfterOp(S, Head(ops)), Tail(ops))

\* the catalog after addDrug(first) and then addDrug(second), run one after
\* the other on the empty catalog
OneAfterTheOther(first, second) ==
  AfterOps(AfterOps(EmptyCatalog, AddDrugOps(first)), AddDrugOps(second))

\* both callers called addDrug for the same id
SameIdAdds ==
  /\ \A c \in Callers : calls[c].op = "addDrug"
  /\ calls["c1"].arg.ndc = calls["c2"].arg.ndc

\* C37: two concurrent addDrug calls on the same id are serializable: for
\* every interleaving of their store commands, once both calls have
\* returned the record and all index sets are those of running the two
\* calls one after the other in one of the two orders; and at every moment
\* the catalog is the one obtained from the commands run so far.
C37_AddDrugSerializable ==
  SameIdAdds =>
    /\ (\A c \in Callers : calls[c].status = "returned") =>
          \/ CatalogState = OneAfterTheOther(calls["c1"].arg, calls["c2"].arg)
          \/ CatalogState = OneAfterTheOther(calls["c2"].arg, calls["c1"].arg)
    /\ \/ CatalogState = AfterOps(AfterOps(EmptyCatalog, calls["c1"].applied), calls["c2"].applied)
       \/ CatalogState = AfterOps(AfterOps(EmptyCatalog, calls["c2"].applied), calls["c1"].applied)

\* both calls have returned, each ran a command between two commands of the
\* other, their records differ, and the catalog is the one of the first
\* caller's call followed by the second caller's
C37_Witness ==
  /\ SameIdAdds
  /\ calls["c1"].arg # calls["c2"].arg
  /\ \A c \in Callers : calls[c].status = "returned" /\ calls[c].raced
  /\ CatalogState = OneAfterTheOther(calls["c1"].arg, calls["c2"].arg)
  /\ CatalogState # OneAfterTheOther(calls["c2"].arg, calls["c1"].arg)

\* C38: in advancedSearch a flag predicate that is present with value
\* false contributes no index set: advancedSearch({requiresPA: false}) and
\* advancedSearch({stepTherapy: false}) return the empty list, and
\* advancedSearch({tier: t, requiresPA: false}) returns what
\* advancedSearch({tier: t}) returns, items whose requiresPA is true
\* included.
C38_FalseFlagContributesNothing ==
  /\ advancedSearch([requiresPA |-> FALSE]) = {<<>>}
  /\ advancedSearch([stepTherapy |-> FALSE]) = {<<>>}
  /\ \A t \in Tiers :
       /\ advancedSearch([tier |-> t, requiresPA |-> FALSE]) = advancedSearch([tier |-> t])
       /\ \A n \in DOMAIN drugs :
            n \in tierIdx[t] =>
              \E res \in advancedSearch([tier |-> t, requiresPA |-> FALSE]) :
                \E i \in 1..Len(res) : res[i] = drugs[n]

\* two items are stored, one requiring authorization and one not: the
\* filter by requiresPA false alone finds nothing, and with the tier of the
\* one requiring authorization it returns that item
C38_Witness ==
  \E n \in DOMAIN drugs, m \in DOMAIN drugs, t \in Tiers :
    /\ drugs[n].requiresPA /\ n \in paIdx /\ drugs[n].tier = t
    /\ ~drugs[m].requiresPA /\ m \notin paIdx
    /\ advancedSearch([requiresPA |-> FALSE]) = {<<>>}
    /\ \E res \in advancedSearch([tier |-> t, requiresPA |-> FALSE]) :
         \E i \in 1..Len(res) : res[i] = drugs[n]

\* C39: every label returned by getTherapeuticClasses() is the lower-cased
\* class label of at least one currently stored record, and
\* getDrugsByClass(label) is non-empty for each listed label, after any
\* sequence of completed addDrug / updateDrug / removeDrug calls.
C39_ListedClassesAreInUse ==
  \A label \in getTherapeuticClasses :
    /\ \E n \in DOMAIN drugs :
         /\ drugs[n].therapeuticClass # NoClass
         /\ toLowerCase(drugs[n].therapeuticClass) = label
    /\ \A res \in getDrugsByClass(label) : Len(res) > 0

\* C40: patient-index consistency: in every reachable state, for every
\* patient p and every request id r in p's request index whose request
\* record is still stored, the stored request's patientId equals p, also
\* after the same request id has been submitted again for another patient.
C40_PatientIndexConsistent ==
  \A p \in Patients : \A r \in PatientRequests(p) :
    getPAStatus(r) # Null => getPAStatus(r).patientId = p

====
